---- MODULE Spec2Model ----
(***************************************************************************)
(* Model of the csc library (client side caching on top of redigo):        *)
(*   - TrackingPool (src/pool.go): slots, free list, active/waited         *)
(*   - Client (src/unnamed/part_007): Get/GetEntries/Set/Delete/Close      *)
(*   - cache (src/unnamed/part_006) and invalidationsReceiver              *)
(*     (src/unnamed/part_003)                                              *)
(* The specifications of the module: SpecPool (the pool's slot and         *)
(* free-list discipline), SpecClient (the sentinel protocol of Get against *)
(* a Redis server that tracks keys and pushes invalidations, with          *)
(* FairSpecClient for what the receiver eventually does), SpecEntries     *)
(* (the same with GetEntries, on a tracking or a broadcasting pool),       *)
(* SpecCache (the cache on its own), SpecSync (a tracking client and its   *)
(* receiver, step by step), SpecBroadcast (a broadcasting pool with its    *)
(* receiver and pinger), SpecShare (which cache a client uses),            *)
(* SpecPrefix (clients of a pool with a KeyPrefix) and SpecCollide (a      *)
(* writer that stores the sentinel's bytes).                               *)
(***************************************************************************)
EXTENDS Integers, Sequences, FiniteSets, TLC

(***************************************************************************)
(* Bounds of the model                                                     *)
(***************************************************************************)
NumProcs == 2
MaxMaxActive == 2
MaxClients == 2
MaxGets == 3

Procs == 1..NumProcs
ClientIds == 1..MaxClients
NoClient == 0

VARIABLES
    \* ---- TrackingPool (src/pool.go:25-36) ----
    options,      \* PoolOptions: [Wait, MaxActive]
    active,       \* p.active
    waited,       \* p.waited
    ch,           \* len(p.ch): permits in the slot channel (0 when p.ch is nil)
    free,         \* p.free
    \* ---- Client (src/unnamed/part_007:34-40), per created client ----
    created,      \* number of clients constructed by TrackingPool.Get so far
    closed,       \* c.closed; for the broadcasting pool, p.closed (pool.go:165)
    connOpen,     \* c.conn / c.iconn still open
    recvAlive,    \* the goroutine of pool.go:110-114 is still running
    \* ---- callers of TrackingPool.Get / Client.Close ----
    gpc,          \* position of each caller
    gclient,      \* the client a caller holds (or is constructing)
    gblocked,     \* the caller's current Get parked on <-p.ch
    blocked,      \* number of Get calls that parked on <-p.ch
    gets,         \* number of Get calls started
    gerr,         \* the error each caller's last Get returned ("none" for nil)
    \* ---- Redis server, as seen through the commands the library issues ----
    mode,         \* "tracking" (pool.go:106, NOLOOP) or "bcast" (pool.go:182, BCAST)
    store,        \* key -> value bytes, or Nil
    sttl,         \* key -> remaining TTL in seconds as TTL reports it
    tracked,      \* key -> data connections whose reads the server remembers
    invq,         \* per invalidation connection: pushed messages not yet received
    \* ---- cache (src/unnamed/part_006:26-34), one per cache owner ----
    caches,       \* [entries, hits, misses, evictions, expired]
    now,          \* nowFunc()
    \* ---- callers of Client.Get/GetEntries/Set/Delete ----
    task,         \* per caller: position and local variables of the running call
    ret,          \* per caller: what its last call returned
    ops,          \* number of calls started
    \* ---- history ----
    tinv,         \* per caller: the phases of its current or last Get in which an
                  \* invalidation of the Get's key was applied to its cache
    stale,        \* the <<cache, key>> whose entry was cached when another
                  \* client's Set or Delete modified the key on the server
    lookups,      \* the key lookups whose map read came after the last flush
    \* ---- expireWatcher (src/unnamed/part_003:59-71), one per cache ----
    watch,        \* its position in evictExpired and the keys it collected
    \* ---- invalidationsReceiver (src/unnamed/part_003:10-57) and the ----
    \* ---- broadcasting pool's pinger (pool.go:187-212)                ----
    recv,         \* per receiver: its position and its local `fails`
    pinger,       \* the pinger's position and its local `fails`
    \* ---- history ----
    streak        \* per receiver, and for the pinger: the number of failures
                  \* since the last success (or since the start)

\* the state of SpecPool only, and of SpecClient only (closed and recvAlive are
\* shared: the Client's flag and its receiver goroutine)
poolOnly == <<options, active, waited, ch, free, created, connOpen, gpc,
              gclient, gblocked, blocked, gets, gerr>>
clientOnly == <<mode, store, sttl, tracked, invq, caches, now, task, ret, ops,
                tinv, stale>>
cacheOnly == <<lookups, watch>>
syncOnly == <<recv, pinger, streak>>

vars == <<options, active, waited, ch, free, created, closed, connOpen,
          recvAlive, gpc, gclient, gblocked, blocked, gets, gerr,
          mode, store, sttl, tracked, invq, caches, now, task, ret, ops, tinv,
          stale, lookups, watch, recv, pinger, streak>>

(***************************************************************************)
(* TrackingPool                                                            *)
(***************************************************************************)

\* pool.go:43 / pool.go:56 / pool.go:155: p.ch is set up iff Wait && MaxActive > 0
HasSlots(opts) == opts.Wait /\ opts.MaxActive > 0

\* the fill loop running once too often (i <= MaxActive)
NewTrackingPoolSlotsOneTooMany(opts) == IF HasSlots(opts) THEN opts.MaxActive + 1 ELSE 0

\* pool.go:45-48: the channel is pre-filled with MaxActive permits
NewTrackingPoolSlots(opts) == IF HasSlots(opts) THEN opts.MaxActive ELSE 0

\* the limit check off by one: one client more than MaxActive gets through
TooManyActiveClientsOffByOne(opts, act) == opts.MaxActive > 0 /\ act > opts.MaxActive

\* pool.go:75: the non-waiting limit check
TooManyActiveClients(opts, act) == opts.MaxActive > 0 /\ act >= opts.MaxActive

\* no receiver and no pinger is followed step by step
NoSync == recv = <<>> /\ pinger = <<>> /\ streak = <<>>

\* no expireWatcher is followed step by step
NoWatch == watch = <<>>

InitPool ==
    /\ options \in [Wait : BOOLEAN, MaxActive : 0..MaxMaxActive]
    /\ active = 0
    /\ waited = 0
    /\ ch = NewTrackingPoolSlots(options)
    /\ free = <<>>
    /\ created = 0
    /\ closed = [c \in ClientIds |-> FALSE]
    /\ connOpen = [c \in ClientIds |-> FALSE]
    /\ recvAlive = [c \in ClientIds |-> FALSE]
    /\ gpc = [g \in Procs |-> "idle"]
    /\ gclient = [g \in Procs |-> NoClient]
    /\ gblocked = [g \in Procs |-> FALSE]
    /\ blocked = 0
    /\ gets = 0
    /\ gerr = [g \in Procs |-> "none"]
    /\ lookups = 0
    /\ NoSync
    /\ NoWatch
    /\ mode = "tracking"
    /\ store = <<>>
    /\ sttl = <<>>
    /\ tracked = <<>>
    /\ invq = <<>>
    /\ caches = <<>>
    /\ now = 1
    /\ task = <<>>
    /\ ret = <<>>
    /\ ops = 0
    /\ tinv = <<>>
    /\ stale = {}

\* pool.go:54-77: entry of Get: the slot check (Wait) or the limit check (no Wait)
PoolGetSlot(g) ==
    /\ gpc[g] = "idle"
    /\ gets < MaxGets
    /\ gets' = gets + 1
    /\ IF HasSlots(options)
         THEN /\ waited' = IF ch = 0 THEN waited + 1 ELSE waited
              /\ gpc' = [gpc EXCEPT ![g] = "recv"]
              /\ gerr' = [gerr EXCEPT ![g] = "none"]
         ELSE /\ waited' = waited
              /\ gpc' = [gpc EXCEPT ![g] =
                          IF TooManyActiveClients(options, active)
                            THEN "idle" ELSE "getFree"]
              /\ gerr' = [gerr EXCEPT ![g] =
                           IF TooManyActiveClients(options, active)
                             THEN "ErrTooManyActiveClients" ELSE "none"]
    /\ UNCHANGED <<options, active, ch, free, created, closed, connOpen,
                   recvAlive, gclient, gblocked, blocked>>
    /\ UNCHANGED <<clientOnly, cacheOnly, syncOnly>>

\* pool.go:68-70: the caller finds no permit and parks on the channel
PoolGetPark(g) ==
    /\ gpc[g] = "recv"
    /\ ch = 0
    /\ ~gblocked[g]
    /\ gblocked' = [gblocked EXCEPT ![g] = TRUE]
    /\ blocked' = blocked + 1
    /\ UNCHANGED <<options, active, waited, ch, free, created, closed,
                   connOpen, recvAlive, gpc, gclient, gets>>
    /\ UNCHANGED <<gerr, clientOnly, cacheOnly, syncOnly>>

\* pool.go:68-70: <-p.ch
PoolGetRecv(g) ==
    /\ gpc[g] = "recv"
    /\ ch > 0
    /\ ch' = ch - 1
    /\ gpc' = [gpc EXCEPT ![g] = "getFree"]
    /\ gblocked' = [gblocked EXCEPT ![g] = FALSE]
    /\ UNCHANGED <<options, active, waited, free, created, closed, connOpen,
                   recvAlive, gclient, blocked, gets>>
    /\ UNCHANGED <<gerr, clientOnly, cacheOnly, syncOnly>>

\* a getFree that hands out the head of the free list and leaves it in the list
PoolGetFreeKeepsHead(g) ==
    /\ gpc[g] = "getFree"
    /\ IF Len(free) > 0
         THEN /\ gclient' = [gclient EXCEPT ![g] = Head(free)]
              /\ gpc' = [gpc EXCEPT ![g] = "holding"]
              /\ free' = free
         ELSE /\ gpc' = [gpc EXCEPT ![g] = "dial"]
              /\ UNCHANGED <<gclient, free>>
    /\ UNCHANGED <<options, active, waited, ch, created, closed, connOpen,
                   recvAlive, gblocked, blocked, gets>>
    /\ UNCHANGED <<gerr, clientOnly, cacheOnly, syncOnly>>

\* pool.go:79-82 with getFree (pool.go:135-147): reuse the head of the free list
PoolGetFree(g) ==
    /\ gpc[g] = "getFree"
    /\ IF Len(free) > 0
         THEN /\ gclient' = [gclient EXCEPT ![g] = Head(free)]
              /\ free' = Tail(free)
              /\ gpc' = [gpc EXCEPT ![g] = "holding"]
         ELSE /\ gpc' = [gpc EXCEPT ![g] = "dial"]
              /\ UNCHANGED <<gclient, free>>
    /\ UNCHANGED <<options, active, waited, ch, created, closed, connOpen,
                   recvAlive, gblocked, blocked, gets>>
    /\ UNCHANGED <<gerr, clientOnly, cacheOnly, syncOnly>>

\* pool.go:84-115: dial both connections, CLIENT ID, CLIENT TRACKING, build the
\* client and start its goroutines; any of the four errors returns (nil, err)
PoolGetDial(g) ==
    /\ gpc[g] = "dial"
    /\ \E ok \in BOOLEAN :
         IF ok
           THEN /\ created < MaxClients
                /\ created' = created + 1
                /\ gclient' = [gclient EXCEPT ![g] = created + 1]
                /\ connOpen' = [connOpen EXCEPT ![created + 1] = TRUE]
                /\ recvAlive' = [recvAlive EXCEPT ![created + 1] = TRUE]
                /\ gpc' = [gpc EXCEPT ![g] = "incActive"]
                /\ gerr' = gerr
           ELSE /\ gpc' = [gpc EXCEPT ![g] = "idle"]
                /\ gerr' = [gerr EXCEPT ![g] = "err"]
                /\ UNCHANGED <<created, gclient, connOpen, recvAlive>>
    /\ UNCHANGED <<options, active, waited, ch, free, closed, gblocked,
                   blocked, gets>>
    /\ UNCHANGED <<clientOnly, cacheOnly, syncOnly>>

\* pool.go:117-118: atomic.AddUint32(&p.active, 1); return c
PoolGetIncActive(g) ==
    /\ gpc[g] = "incActive"
    /\ active' = active + 1
    /\ gpc' = [gpc EXCEPT ![g] = "holding"]
    /\ UNCHANGED <<options, waited, ch, free, created, closed, connOpen,
                   recvAlive, gclient, gblocked, blocked, gets>>
    /\ UNCHANGED <<gerr, clientOnly, cacheOnly, syncOnly>>

\* part_007:257-273: Client.Close tears the connections down when the client is
\* closed, otherwise goes on to hand the client back to the pool (for a
\* TrackingPool that is putFree, as client.go:160-162 calls it)
ClientClose(g) ==
    /\ gpc[g] = "holding"
    /\ IF closed[gclient[g]]
         THEN /\ connOpen' = [connOpen EXCEPT ![gclient[g]] = FALSE]
              /\ gclient' = [gclient EXCEPT ![g] = NoClient]
              /\ gpc' = [gpc EXCEPT ![g] = "idle"]
         ELSE /\ gpc' = [gpc EXCEPT ![g] = "putFree"]
              /\ UNCHANGED <<connOpen, gclient>>
    /\ UNCHANGED <<options, active, waited, ch, free, created, closed,
                   recvAlive, gblocked, blocked, gets>>
    /\ UNCHANGED <<gerr, clientOnly, cacheOnly, syncOnly>>

\* part_007:271 -> pool.go:149-158: putFree appends the client and releases a slot
putFree(g) ==
    /\ gpc[g] = "putFree"
    /\ HasSlots(options) => ch < options.MaxActive
    /\ free' = Append(free, gclient[g])
    /\ ch' = IF HasSlots(options) THEN ch + 1 ELSE ch
    /\ gclient' = [gclient EXCEPT ![g] = NoClient]
    /\ gpc' = [gpc EXCEPT ![g] = "idle"]
    /\ UNCHANGED <<options, active, waited, created, closed, connOpen,
                   recvAlive, gblocked, blocked, gets>>
    /\ UNCHANGED <<gerr, clientOnly, cacheOnly, syncOnly>>

\* pool.go:122-132: TrackingPool.Close marks every free client closed and closes
\* its connections; the free list itself is left as it is
PoolClose ==
    /\ \E i \in 1..Len(free) : ~closed[free[i]] \/ connOpen[free[i]]
    /\ closed' = [c \in ClientIds |->
                    IF \E i \in 1..Len(free) : free[i] = c THEN TRUE ELSE closed[c]]
    /\ connOpen' = [c \in ClientIds |->
                    IF \E i \in 1..Len(free) : free[i] = c THEN FALSE ELSE connOpen[c]]
    /\ UNCHANGED <<options, active, waited, ch, free, created, recvAlive,
                   gpc, gclient, gblocked, blocked, gets>>
    /\ UNCHANGED <<gerr, clientOnly, cacheOnly, syncOnly>>

\* pool.go:110-114: invalidationsReceiver returned an error (part_003:11-19):
\* the client is marked closed
ReceiverFailed(c) ==
    /\ recvAlive[c]
    /\ recvAlive' = [recvAlive EXCEPT ![c] = FALSE]
    /\ closed' = [closed EXCEPT ![c] = TRUE]
    /\ UNCHANGED <<options, active, waited, ch, free, created, connOpen,
                   gpc, gclient, gblocked, blocked, gets>>
    /\ UNCHANGED <<gerr, clientOnly, cacheOnly, syncOnly>>

NextPool ==
    \/ \E g \in Procs : PoolGetSlot(g)
    \/ \E g \in Procs : PoolGetPark(g)
    \/ \E g \in Procs : PoolGetRecv(g)
    \/ \E g \in Procs : PoolGetFree(g)
    \/ \E g \in Procs : PoolGetDial(g)
    \/ \E g \in Procs : PoolGetIncActive(g)
    \/ \E g \in Procs : ClientClose(g)
    \/ \E g \in Procs : putFree(g)
    \/ PoolClose
    \/ \E c \in ClientIds : ReceiverFailed(c)

SpecPool == InitPool /\ [][NextPool]_vars

\* Every caller that holds a client closes it, and a Get or Close that can take
\* its next step takes it: goroutines are scheduled, a receive from a channel
\* that holds a permit completes (pool.go:68-70), a send to a channel with room
\* completes (pool.go:156).  Nobody is obliged to start a Get.
FairSpecPool ==
    /\ SpecPool
    /\ \A g \in Procs :
         /\ WF_vars(PoolGetRecv(g))
         /\ WF_vars(PoolGetFree(g))
         /\ WF_vars(PoolGetDial(g))
         /\ WF_vars(PoolGetIncActive(g))
         /\ WF_vars(ClientClose(g))
         /\ WF_vars(putFree(g))

(***************************************************************************)
(* Claims about TrackingPool                                               *)
(***************************************************************************)

\* The callers that hold a vended client: returned by Get and not yet handed back
\* by Close (a Close that has not reached putFree still holds it)
Vended == {g \in Procs : gpc[g] \in {"holding", "putFree"}}

\* C7: a client marked closed is never reused: every step in which
\* TrackingPool.Get returns a client taken from the free list returns one whose
\* closed flag is clear.
C7_GetNeverReturnsClosedClient ==
    [][\A g \in Procs :
         (gpc[g] = "getFree" /\ gpc'[g] = "holding") => ~closed'[gclient'[g]]]_vars

\* C8: with Wait=true and MaxActive=M>0 the number of clients simultaneously
\* vended never exceeds M.
C8_VendedAtMostMaxActive ==
    HasSlots(options) => Cardinality(Vended) <= options.MaxActive

\* C8 witness: M clients are vended and a further Get is parked on the channel.
C8_Witness ==
    /\ HasSlots(options)
    /\ Cardinality(Vended) = options.MaxActive
    /\ \E g \in Procs : gblocked[g]

\* C9: waited counts exactly the Gets that had to block on the slot channel:
\* whenever no Get is between its slot check and its receive, waited equals the
\* number of Gets that parked.
C9_WaitedCountsBlockedGets ==
    (HasSlots(options) /\ \A g \in Procs : gpc[g] # "recv") => waited = blocked

\* C10: with MaxActive>0 (Wait true or false) active never exceeds MaxActive.
C10_ActiveAtMostMaxActive ==
    options.MaxActive > 0 => active <= options.MaxActive

\* C11: without Wait and with MaxActive>0, a Get that starts when active has
\* reached MaxActive returns ErrTooManyActiveClients at once and leaves the pool
\* as it was; with MaxActive=0 a Get that starts goes straight on to the free
\* list, whatever the number of clients: it neither waits for a slot nor fails
\* with ErrTooManyActiveClients.
C11_LimitFailsAtOnce ==
    [][gets' = gets + 1 =>
         /\ (~options.Wait /\ options.MaxActive > 0 /\ active >= options.MaxActive)
            => /\ \E g \in Procs :
                    gpc[g] = "idle" /\ gerr'[g] = "ErrTooManyActiveClients"
               /\ gpc' = gpc
               /\ UNCHANGED <<active, waited, ch, free, created, closed, connOpen,
                              recvAlive, gclient, gblocked>>
         /\ options.MaxActive = 0
            => \E g \in Procs :
                 gpc[g] = "idle" /\ gpc'[g] = "getFree" /\ gerr'[g] = "none"]_vars

\* C11 witness: a Get was refused with ErrTooManyActiveClients while MaxActive
\* clients were active and another caller held one of them.
C11_Witness ==
    /\ ~options.Wait /\ options.MaxActive > 0 /\ active = options.MaxActive
    /\ \E g, h \in Procs :
         gerr[g] = "ErrTooManyActiveClients" /\ gpc[g] = "idle" /\ gpc[h] = "holding"

\* C12: with Wait=true and MaxActive>0, when every vended client is eventually
\* closed, no Get stays blocked on the permit channel forever.
C12_NoGetBlocksForever ==
    \A g \in Procs :
        (HasSlots(options) /\ gpc[g] = "recv") ~> (gpc[g] # "recv")

\* the callers that have a client in their hands: being returned by Get,
\* vended, or being handed back by Close
Holders == {g \in Procs : gclient[g] # NoClient}

\* C31: no client is held by two callers at the same time, no client is both
\* held and in the free list, and the free list never holds a client twice.
C31_ExclusiveVending ==
    /\ \A g, h \in Holders : g # h => gclient[g] # gclient[h]
    /\ \A g \in Holders : \A i \in 1..Len(free) : free[i] # gclient[g]
    /\ \A i, j \in 1..Len(free) : i # j => free[i] # free[j]

\* C31 witness: a caller holds a client it took from the free list while the
\* other client of the pool sits in the free list
C31_Witness ==
    /\ Len(free) = 1
    /\ \E g \in Procs :
         gpc[g] = "holding" /\ gclient[g] # NoClient /\ gclient[g] < created
    /\ active = 2

\* C33: without Wait and with MaxActive=M>0, a Get is refused with
\* ErrTooManyActiveClients only when M clients are vended, and never while the
\* free list holds a client.
C33_RefusedOnlyWhenAllVended ==
    [][\A g \in Procs :
         (/\ ~options.Wait /\ options.MaxActive > 0
          /\ gets' = gets + 1 /\ gpc[g] = "idle"
          /\ gerr'[g] = "ErrTooManyActiveClients" /\ gpc'[g] = "idle")
           => /\ Cardinality(Holders) >= options.MaxActive
              /\ free = <<>>]_vars

\* C34: with Wait and MaxActive=M>0, whenever no Get and no Close is in
\* progress, the permits in the channel plus the clients vended add up to M.
C34_PermitConservation ==
    (HasSlots(options) /\ \A g \in Procs : gpc[g] \in {"idle", "holding"})
      => ch + Cardinality({g \in Procs : gpc[g] = "holding"}) = options.MaxActive

(***************************************************************************)
(* cache (src/unnamed/part_006)                                            *)
(***************************************************************************)
MaxOps == 3

\* two clients of one pool and two keys (part_005:179-230, part_005:352-378);
\* the values are legitimate ones: none is the sentinel
Tasks == {"c1", "c2"}
Keys == {"foo", "bar"}
Values == {"123", "456"}
\* PoolOptions.MaxEntries of the clients' caches: above the number of keys, as in
\* part_005:183, so that no Get evicts
ClientMaxEntries == Cardinality(Keys) + 1
Nil == "nil"
\* part_007:13
cacheInProgressSentinel == "__csc:cip__"
\* part_007:71, part_007:143: the TTL the sentinel is planted with
SentinelTTL == 30
\* part_006:11
NoExpire == 0
\* the zero time.Time of an entry written without expiry (part_006:116-122)
ZeroTime == 0

\* part_006:39-51
newCache ==
    [entries |-> <<>>, hits |-> 0, misses |-> 0, evictions |-> 0, expired |-> 0]

Has(c, k) == k \in DOMAIN c.entries

Without(entries, ks) == [x \in DOMAIN entries \ ks |-> entries[x]]

\* a delete that leaves the keys where they are
cacheDeleteNothing(c, ks) == c

\* part_006:53-61
cacheDelete(c, ks) == [c EXCEPT !.entries = Without(c.entries, ks)]

\* part_006:64-71: ceil(0.05 * len), at least 1
evictSize(n) == IF (n + 19) \div 20 = 0 THEN 1 ELSE (n + 19) \div 20

\* part_006:76-103: evictKeys removes evictSize entries, starting at a random
\* offset below len-size of the map's iteration order (which Go leaves
\* unspecified): any evictSize of the entries may go.  rand.Intn panics when
\* len-size is not positive: then there is no outcome.
evictKeys(c) ==
    LET n == Cardinality(DOMAIN c.entries)
        size == evictSize(n)
    IN  IF n - size <= 0 THEN {}
        ELSE {[c EXCEPT !.entries = Without(c.entries, gone),
                        !.evictions = c.evictions + size] :
                gone \in {S \in SUBSET (DOMAIN c.entries) : Cardinality(S) = size}}

\* part_006:116-122: the entry written by set
newEntry(value, expires, t) ==
    [data |-> value, expires |-> IF expires > NoExpire THEN t + expires ELSE ZeroTime]

Put(entries, k, e) ==
    [x \in DOMAIN entries \cup {k} |-> IF x = k THEN e ELSE entries[x]]

\* set with the full test off by one: the cache grows to maxEntries + 1
cacheSetEvictsLate(c, maxEntries, k, value, expires, t) ==
    LET after == IF Cardinality(DOMAIN c.entries) > maxEntries
                   THEN evictKeys(c) ELSE {c}
    IN  {[d EXCEPT !.entries = Put(d.entries, k, newEntry(value, expires, t))] :
           d \in after}

\* set that stores the entry first and evicts afterwards: the entry just
\* written may be among the evicted
cacheSetEvictsAfter(c, maxEntries, k, value, expires, t) ==
    LET put == [c EXCEPT !.entries = Put(c.entries, k, newEntry(value, expires, t))]
    IN  IF Cardinality(DOMAIN c.entries) >= maxEntries THEN evictKeys(put)
        ELSE {put}

\* part_006:105-125: the caches set can leave behind (one, unless it evicts)
cacheSet(c, maxEntries, k, value, expires, t) ==
    LET after == IF Cardinality(DOMAIN c.entries) >= maxEntries
                   THEN evictKeys(c) ELSE {c}
    IN  {[d EXCEPT !.entries = Put(d.entries, k, newEntry(value, expires, t))] :
           d \in after}

\* part_006:131-140: the counter getEntry adds to, given what it found
cacheCounted(c, ok) ==
    IF ok THEN [c EXCEPT !.hits = c.hits + 1]
          ELSE [c EXCEPT !.misses = c.misses + 1]

\* part_006:127-143: getEntry counts a hit or a miss
cacheCount(c, k) == cacheCounted(c, Has(c, k))

\* part_006:127-148: the data getEntry / get hand back (nil when absent)
cacheData(c, k) == IF Has(c, k) THEN c.entries[k].data ELSE Nil

RECURSIVE cacheCountAll(_, _)
\* part_006:156-164: getm counts each requested key
cacheCountAll(c, ks) ==
    IF ks = <<>> THEN c ELSE cacheCountAll(cacheCount(c, Head(ks)), Tail(ks))

\* part_006:150-170: getm returns the data of each key, in order
cacheGetm(c, ks) == [i \in 1..Len(ks) |-> cacheData(c, ks[i])]

(***************************************************************************)
(* The Redis server behind the data and invalidation connections           *)
(***************************************************************************)
\* the TTL the callers pass to Set (part_005:189)
SetTTL == 60
\* what TTL answers for a key that does not exist
TTLNoKey == 0 - 2

\* pool.go:97 / pool.go:172, pool.go:243-250: a tracking client owns its cache,
\* the clients of a broadcasting pool share the pool's
PoolCache == "pool"
cacheOf(t) == IF mode = "tracking" THEN t ELSE PoolCache
CacheIds == IF mode = "tracking" THEN Tasks ELSE {PoolCache}

Server == [store |-> store, sttl |-> sttl, tracked |-> tracked, invq |-> invq]

\* pool.go:106 (REDIRECT ... NOLOOP): the server remembers that connection t read k;
\* pool.go:182 (BCAST): reads are not remembered
serverRead(S, t, ks) ==
    IF mode = "tracking"
      THEN [S EXCEPT !.tracked = [k \in DOMAIN S.tracked |->
                        IF k \in ks THEN S.tracked[k] \cup {t} ELSE S.tracked[k]]]
      ELSE S

\* A write to k by connection w: with NOLOOP every other connection that read k is
\* sent an invalidation on its redirect connection and the key is forgotten; with
\* BCAST the pool's redirect connection is sent one for every written key
\* part_003:11, pool.go:110-114: the invalidation connection of c has been put
\* in Pub/Sub mode.  A receiver that is followed step by step has not until its
\* SUBSCRIBE ran; the server drops a redirected invalidation for a connection
\* that is not subscribed.
Subscribed(c) == c \notin DOMAIN recv \/ recv[c].pc # "subscribe"

serverPush(S, w, k) ==
    [S EXCEPT
       !.invq = [c \in DOMAIN S.invq |->
                   IF mode = "tracking"
                     THEN IF c \in S.tracked[k] /\ c # w /\ Subscribed(c)
                            THEN Append(S.invq[c], k) ELSE S.invq[c]
                     ELSE Append(S.invq[c], k)],
       !.tracked = [S.tracked EXCEPT ![k] = {}]]

\* part_007:207: SETEX key expires value
serverSETEX(S, w, k, v, ttl) ==
    serverPush([S EXCEPT !.store[k] = v, !.sttl[k] = ttl], w, k)

RECURSIVE serverDEL(_, _, _)
\* part_007:68, part_007:148, part_007:229: DEL key...; only a key that exists
\* is modified
serverDEL(S, w, ks) ==
    IF ks = <<>> THEN S
    ELSE LET k == Head(ks)
             S1 == IF S.store[k] = Nil THEN S
                   ELSE serverPush([S EXCEPT !.store[k] = Nil,
                                             !.sttl[k] = TTLNoKey], w, k)
         IN  serverDEL(S1, w, Tail(ks))

SetServer(S) ==
    /\ store' = S.store
    /\ sttl' = S.sttl
    /\ tracked' = S.tracked
    /\ invq' = S.invq

(***************************************************************************)
(* Client (src/unnamed/part_007)                                           *)
(***************************************************************************)
Idle == [pc |-> "idle", keys |-> <<>>, val |-> Nil, ttl |-> 0, data |-> Nil,
         exp |-> 0, i |-> 0, missing |-> <<>>, mres |-> <<>>, ttls |-> <<>>,
         entries |-> <<>>, err |-> "none"]

NoRet == [op |-> "none", keys |-> <<>>, err |-> "none", data |-> Nil,
          hit |-> FALSE, entries |-> <<>>]

\* what a call returned: the call and its keys, the error ("none" for nil), and
\* the bytes and LocalHit of Get or the entries of GetEntries
Ret(op, keys, err, data, hit, entries) ==
    [op |-> op, keys |-> keys, err |-> err, data |-> data, hit |-> hit,
     entries |-> entries]

\* part_007:42-46: an Entry as the caller sees it
Entry(data, hit) == [Data |-> data, LocalHit |-> hit]

KeySeqs == {<<k>> : k \in Keys} \cup {<<k1, k2>> : k1 \in Keys, k2 \in Keys}

\* part_003:63-70: the watcher waits for its ticker
WatchIdle == [pc |-> "idle", keys |-> {}]

\* pool options without a key prefix
NoPrefix == [Wait |-> FALSE, MaxActive |-> 0, KeyPrefix |-> ""]

InitCommon ==
    /\ active = 0
    /\ waited = 0
    /\ ch = 0
    /\ free = <<>>
    /\ created = 0
    /\ connOpen = <<>>
    /\ gpc = <<>>
    /\ gclient = <<>>
    /\ gblocked = <<>>
    /\ blocked = 0
    /\ gets = 0
    /\ gerr = <<>>
    /\ lookups = 0
    /\ closed = [x \in Tasks \cup {PoolCache} |-> FALSE]
    /\ recvAlive = [c \in CacheIds |-> TRUE]
    /\ sttl = [k \in DOMAIN store |-> IF store[k] = Nil THEN TTLNoKey ELSE SetTTL]
    /\ tracked = [k \in DOMAIN store |-> {}]
    /\ invq = [c \in CacheIds |-> <<>>]
    /\ caches = [c \in CacheIds |-> newCache]
    /\ now = 1
    /\ task = [t \in Tasks |-> Idle]
    /\ ret = [t \in Tasks |-> NoRet]
    /\ ops = 0
    /\ tinv = [t \in Tasks |-> {}]
    /\ stale = {}
    /\ watch = [c \in CacheIds |-> WatchIdle]

\* tracking clients of one pool (pool.go:94-118), each with its own cache and
\* receiver, in front of a server that may already hold values
InitClient ==
    /\ mode = "tracking"
    /\ store \in [Keys -> Values \cup {Nil}]
    /\ options = NoPrefix
    /\ InitCommon
    /\ NoSync

\* clients of a tracking pool or of a broadcasting pool (pool.go:243-250), in
\* front of an empty server
InitEntries ==
    /\ mode \in {"tracking", "bcast"}
    /\ store = [k \in Keys |-> Nil]
    /\ options = NoPrefix
    /\ InitCommon
    /\ NoSync

\* part_007:58: what getEntry serves from the cache: present, not nil, not the
\* sentinel
Servable(data) == data # Nil /\ data # cacheInProgressSentinel

\* history: of the entries in s, those the step leaves as they were
StillCached(s) ==
    {p \in s : /\ Has(caches[p[1]], p[2]) /\ Has(caches'[p[1]], p[2])
               /\ caches'[p[1]].entries[p[2]] = caches[p[1]].entries[p[2]]}

\* history: the entries for k that the other tracking clients hold when w writes k
CachedElsewhere(w, k) ==
    IF mode = "tracking"
      THEN {<<c, k>> : c \in {x \in Tasks \ {w} : Servable(cacheData(caches[x], k))}}
      ELSE {}

\* a call begins: it counts against the budget and forgets the last return
Begin(t) ==
    /\ task[t].pc = "idle"
    /\ ops < MaxOps
    /\ ops' = ops + 1
    /\ tinv' = [tinv EXCEPT ![t] = {}]

\* part_007:51-53, part_007:200-202, part_007:215-217
isClosed(t) == closed[t]

\* part_007:275-282: the key with the pool's KeyPrefix in front, if there is one
prefixKey(k) == IF options.KeyPrefix # "" THEN options.KeyPrefix \o k ELSE k

\* part_007:48-56 (via Get, part_007:107-114): entry of getEntry
Get(t, k) ==
    /\ Begin(t)
    /\ IF isClosed(t)
         THEN /\ ret' = [ret EXCEPT ![t] = Ret("Get", <<k>>, "ErrClosed", Nil, FALSE, <<>>)]
              /\ task' = task
         ELSE /\ ret' = [ret EXCEPT ![t] = NoRet]
              /\ task' = [task EXCEPT ![t] = [Idle EXCEPT !.pc = "g_lookup",
                                                         !.keys = <<prefixKey(k)>>]]
    /\ UNCHANGED <<store, sttl, tracked, invq, caches, now, mode, closed,
                   recvAlive, stale, poolOnly, cacheOnly, syncOnly>>

\* part_007:58-64: the local lookup; a servable entry is returned as a local hit
GetLookup(t) ==
    LET c == caches[cacheOf(t)]
        k == task[t].keys[1]
    IN  /\ task[t].pc = "g_lookup"
        /\ caches' = [caches EXCEPT ![cacheOf(t)] = cacheCount(c, k)]
        /\ IF Servable(cacheData(c, k))
             THEN /\ ret' = [ret EXCEPT ![t] =
                               Ret("Get", task[t].keys, "none", cacheData(c, k), TRUE, <<>>)]
                  /\ task' = [task EXCEPT ![t] = Idle]
             ELSE /\ task' = [task EXCEPT ![t].pc = "g_plant"]
                  /\ ret' = ret
        /\ UNCHANGED <<store, sttl, tracked, invq, now, mode, closed, recvAlive,
                       ops, tinv, poolOnly, cacheOnly, syncOnly>>
        /\ stale' = StillCached(stale)

\* part_007:71: plant the sentinel
GetPlant(t) ==
    /\ task[t].pc = "g_plant"
    /\ \E c \in cacheSet(caches[cacheOf(t)], ClientMaxEntries, task[t].keys[1],
                         cacheInProgressSentinel, SentinelTTL, now) :
         caches' = [caches EXCEPT ![cacheOf(t)] = c]
    /\ task' = [task EXCEPT ![t].pc = "g_GET"]
    /\ UNCHANGED <<store, sttl, tracked, invq, now, mode, closed, recvAlive,
                   ret, ops, tinv, poolOnly, cacheOnly, syncOnly>>
    /\ stale' = StillCached(stale)

\* part_007:73-83: GET on the data connection; a transport error or a nil reply
\* (redis.Bytes: ErrNil) goes to cleanup.  A command whose reply was lost may or
\* may not have reached the server.
GetGET(t) ==
    LET k == task[t].keys[1]
    IN  /\ task[t].pc = "g_GET"
        /\ \E sent \in BOOLEAN, replied \in BOOLEAN :
             /\ replied => sent
             /\ SetServer(IF sent THEN serverRead(Server, t, {k}) ELSE Server)
             /\ task' = [task EXCEPT ![t] =
                   IF ~replied THEN [@ EXCEPT !.pc = "g_cleanup", !.err = "err"]
                   ELSE IF store[k] = Nil
                          THEN [@ EXCEPT !.pc = "g_cleanup", !.err = "ErrNil"]
                          ELSE [@ EXCEPT !.pc = "g_TTL", !.data = store[k]]]
        /\ UNCHANGED <<caches, now, mode, closed, recvAlive, ret, ops, tinv,
                       stale, poolOnly, cacheOnly, syncOnly>>

\* part_007:85-89: TTL on the data connection
GetTTL(t) ==
    /\ task[t].pc = "g_TTL"
    /\ \E ok \in BOOLEAN :
         task' = [task EXCEPT ![t] =
                    IF ok THEN [@ EXCEPT !.pc = "g_reread", !.exp = sttl[task[t].keys[1]]]
                          ELSE [@ EXCEPT !.pc = "g_cleanup", !.err = "err"]]
    /\ UNCHANGED <<store, sttl, tracked, invq, caches, now, mode, closed,
                   recvAlive, ret, ops, tinv, stale, poolOnly, cacheOnly, syncOnly>>

\* the comparison inverted: the fetched bytes are committed only when the
\* sentinel is gone
SentinelSeenInverted(data) == data # cacheInProgressSentinel

\* part_007:92, part_007:183: the re-read entry is still the sentinel
SentinelSeen(data) == data = cacheInProgressSentinel

\* part_007:92 and 96-100: re-read the entry; without the sentinel the fetched
\* bytes are returned and not cached
GetReread(t) ==
    LET c == caches[cacheOf(t)]
        k == task[t].keys[1]
    IN  /\ task[t].pc = "g_reread"
        /\ caches' = [caches EXCEPT ![cacheOf(t)] = cacheCount(c, k)]
        /\ IF SentinelSeen(cacheData(c, k))
             THEN /\ task' = [task EXCEPT ![t].pc = "g_commit"]
                  /\ ret' = ret
             ELSE /\ ret' = [ret EXCEPT ![t] =
                               Ret("Get", task[t].keys, "none", task[t].data, FALSE, <<>>)]
                  /\ task' = [task EXCEPT ![t] = Idle]
        /\ UNCHANGED <<store, sttl, tracked, invq, now, mode, closed, recvAlive,
                       ops, tinv, poolOnly, cacheOnly, syncOnly>>
        /\ stale' = StillCached(stale)

\* part_007:93 and 96-100: commit the fetched bytes with the server's TTL
GetCommit(t) ==
    /\ task[t].pc = "g_commit"
    /\ \E c \in cacheSet(caches[cacheOf(t)], ClientMaxEntries, task[t].keys[1],
                         task[t].data, task[t].exp, now) :
         caches' = [caches EXCEPT ![cacheOf(t)] = c]
    /\ ret' = [ret EXCEPT ![t] = Ret("Get", task[t].keys, "none", task[t].data, FALSE, <<>>)]
    /\ task' = [task EXCEPT ![t] = Idle]
    /\ UNCHANGED <<store, sttl, tracked, invq, now, mode, closed, recvAlive,
                   ops, tinv, poolOnly, cacheOnly, syncOnly>>
    /\ stale' = StillCached(stale)

\* a cleanup that leaves the planted entry in the cache
GetCleanupKeeps(t) ==
    /\ task[t].pc = "g_cleanup"
    /\ task' = [task EXCEPT ![t].pc = "g_DEL"]
    /\ UNCHANGED <<store, sttl, tracked, invq, caches, now, mode, closed,
                   recvAlive, ret, ops, tinv, stale, poolOnly, cacheOnly, syncOnly>>

\* part_007:66-67: cleanup, first half: delete the key locally
GetCleanup(t) ==
    /\ task[t].pc = "g_cleanup"
    /\ caches' = [caches EXCEPT ![cacheOf(t)] = cacheDelete(@, {task[t].keys[1]})]
    /\ task' = [task EXCEPT ![t].pc = "g_DEL"]
    /\ UNCHANGED <<store, sttl, tracked, invq, now, mode, closed, recvAlive,
                   ret, ops, tinv, poolOnly, cacheOnly, syncOnly>>
    /\ stale' = StillCached(stale)

\* part_007:68 and the return of the error: cleanup, second half: DEL on the data
\* connection, its outcome ignored
GetCleanupDEL(t) ==
    /\ task[t].pc = "g_DEL"
    /\ \E sent \in BOOLEAN :
         SetServer(IF sent THEN serverDEL(Server, t, task[t].keys) ELSE Server)
    /\ ret' = [ret EXCEPT ![t] = Ret("Get", task[t].keys, task[t].err, Nil, FALSE, <<>>)]
    /\ task' = [task EXCEPT ![t] = Idle]
    /\ UNCHANGED <<caches, now, mode, closed, recvAlive, ops, tinv, stale, poolOnly, cacheOnly, syncOnly>>

\* part_007:199-205: entry of Set
Set(t, k, v) ==
    /\ Begin(t)
    /\ IF isClosed(t)
         THEN /\ ret' = [ret EXCEPT ![t] = Ret("Set", <<k>>, "ErrClosed", Nil, FALSE, <<>>)]
              /\ task' = task
         ELSE /\ ret' = [ret EXCEPT ![t] = NoRet]
              /\ task' = [task EXCEPT ![t] = [Idle EXCEPT !.pc = "s_SETEX",
                                  !.keys = <<prefixKey(k)>>, !.val = v,
                                  !.ttl = SetTTL]]
    /\ UNCHANGED <<store, sttl, tracked, invq, caches, now, mode, closed,
                   recvAlive, stale, poolOnly, cacheOnly, syncOnly>>

\* a Set that also writes the value into the client's cache
SetSETEXPopulates(t) ==
    /\ task[t].pc = "s_SETEX"
    /\ \E ok \in BOOLEAN :
         /\ SetServer(IF ok THEN serverSETEX(Server, t, task[t].keys[1],
                                             task[t].val, task[t].ttl)
                            ELSE Server)
         /\ ret' = [ret EXCEPT ![t] =
                      Ret("Set", task[t].keys, IF ok THEN "none" ELSE "err", Nil, FALSE, <<>>)]
    /\ \E c \in cacheSet(caches[cacheOf(t)], ClientMaxEntries, task[t].keys[1],
                         task[t].val, task[t].ttl, now) :
         caches' = [caches EXCEPT ![cacheOf(t)] = c]
    /\ stale' = StillCached(stale)
    /\ task' = [task EXCEPT ![t] = Idle]
    /\ UNCHANGED <<now, mode, closed, recvAlive, ops, tinv, poolOnly, cacheOnly, syncOnly>>

\* part_007:207-211: SETEX on the data connection; the local cache is not touched
SetSETEX(t) ==
    /\ task[t].pc = "s_SETEX"
    /\ \E ok \in BOOLEAN :
         /\ SetServer(IF ok THEN serverSETEX(Server, t, task[t].keys[1],
                                             task[t].val, task[t].ttl)
                            ELSE Server)
         /\ ret' = [ret EXCEPT ![t] =
                      Ret("Set", task[t].keys, IF ok THEN "none" ELSE "err", Nil, FALSE, <<>>)]
         /\ stale' = IF ok THEN stale \cup CachedElsewhere(t, task[t].keys[1])
                          ELSE stale
    /\ task' = [task EXCEPT ![t] = Idle]
    /\ UNCHANGED <<caches, now, mode, closed, recvAlive, ops, tinv, poolOnly, cacheOnly, syncOnly>>

\* part_007:214-228: entry of Delete
Delete(t, k) ==
    /\ Begin(t)
    /\ IF isClosed(t)
         THEN /\ ret' = [ret EXCEPT ![t] =
                           Ret("Delete", <<k>>, "ErrClosed", Nil, FALSE, <<>>)]
              /\ task' = task
         ELSE /\ ret' = [ret EXCEPT ![t] = NoRet]
              /\ task' = [task EXCEPT ![t] = [Idle EXCEPT !.pc = "d_DEL",
                                                         !.keys = <<prefixKey(k)>>]]
    /\ UNCHANGED <<store, sttl, tracked, invq, caches, now, mode, closed,
                   recvAlive, stale, poolOnly, cacheOnly, syncOnly>>

\* part_007:229-231: DEL on the data connection
DeleteDEL(t) ==
    /\ task[t].pc = "d_DEL"
    /\ \E ok \in BOOLEAN :
         IF ok
           THEN /\ SetServer(serverDEL(Server, t, task[t].keys))
                /\ task' = [task EXCEPT ![t].pc = "d_local"]
                /\ ret' = ret
                /\ stale' = IF store[task[t].keys[1]] = Nil THEN stale
                             ELSE stale \cup CachedElsewhere(t, task[t].keys[1])
           ELSE /\ SetServer(Server)
                /\ task' = [task EXCEPT ![t] = Idle]
                /\ ret' = [ret EXCEPT ![t] = Ret("Delete", task[t].keys, "err", Nil, FALSE, <<>>)]
                /\ stale' = stale
    /\ UNCHANGED <<caches, now, mode, closed, recvAlive, ops, tinv, poolOnly, cacheOnly, syncOnly>>

\* part_007:233-234: then the local delete
DeleteLocal(t) ==
    /\ task[t].pc = "d_local"
    /\ caches' = [caches EXCEPT ![cacheOf(t)] =
                    cacheDelete(@, {task[t].keys[i] : i \in 1..Len(task[t].keys)})]
    /\ ret' = [ret EXCEPT ![t] = Ret("Delete", task[t].keys, "none", Nil, FALSE, <<>>)]
    /\ task' = [task EXCEPT ![t] = Idle]
    /\ UNCHANGED <<store, sttl, tracked, invq, now, mode, closed, recvAlive,
                   ops, tinv, poolOnly, cacheOnly, syncOnly>>
    /\ stale' = StillCached(stale)

\* part_007:116-118: entry of GetEntries (it does not look at the closed flag)
GetEntries(t, ks) ==
    /\ Begin(t)
    /\ ret' = [ret EXCEPT ![t] = NoRet]
    /\ task' = [task EXCEPT ![t] = [Idle EXCEPT !.pc = "e_getm", !.keys = ks]]
    /\ UNCHANGED <<store, sttl, tracked, invq, caches, now, mode, closed,
                   recvAlive, stale, poolOnly, cacheOnly, syncOnly>>

\* part_007:124-130: the keys whose local result is nil, in input order
Missing(ks, res) ==
    LET idx == SelectSeq([i \in 1..Len(ks) |-> i], LAMBDA i : res[i] = Nil)
    IN  [j \in 1..Len(idx) |-> ks[idx[j]]]

\* part_007:121-128, 188: idxMap[k], the last index at which the missing key k
\* was requested
idxMap(ks, res, k) ==
    CHOOSE i \in 1..Len(ks) :
        /\ ks[i] = k /\ res[i] = Nil
        /\ \A j \in 1..Len(ks) : (ks[j] = k /\ res[j] = Nil) => j <= i

\* part_007:118-137: getm under the cache lock; every non-nil result becomes a
\* local-hit entry
GetEntriesGetm(t) ==
    LET c == caches[cacheOf(t)]
        ks == task[t].keys
        res == cacheGetm(c, ks)
        miss == Missing(ks, res)
    IN  /\ task[t].pc = "e_getm"
        /\ caches' = [caches EXCEPT ![cacheOf(t)] = cacheCountAll(c, ks)]
        /\ task' = [task EXCEPT ![t] =
              [@ EXCEPT !.pc = IF miss = <<>> THEN "e_MGET" ELSE "e_plant",
                        !.i = 1,
                        !.missing = miss,
                        !.entries = [i \in 1..Len(ks) |->
                            IF res[i] = Nil THEN Entry(Nil, FALSE)
                                            ELSE Entry(res[i], TRUE)]]]
        /\ UNCHANGED <<store, sttl, tracked, invq, now, mode, closed, recvAlive,
                       ret, ops, tinv, poolOnly, cacheOnly, syncOnly>>
        /\ stale' = StillCached(stale)

\* part_007:142-144: plant the sentinel for the next missing key
GetEntriesPlant(t) ==
    /\ task[t].pc = "e_plant"
    /\ \E c \in cacheSet(caches[cacheOf(t)], ClientMaxEntries,
                         task[t].missing[task[t].i], cacheInProgressSentinel,
                         SentinelTTL, now) :
         caches' = [caches EXCEPT ![cacheOf(t)] = c]
    /\ task' = [task EXCEPT ![t] =
                  [@ EXCEPT !.i = @ + 1,
                            !.pc = IF task[t].i = Len(task[t].missing)
                                     THEN "e_MGET" ELSE "e_plant"]]
    /\ UNCHANGED <<store, sttl, tracked, invq, now, mode, closed, recvAlive,
                   ret, ops, tinv, poolOnly, cacheOnly, syncOnly>>
    /\ stale' = StillCached(stale)

\* part_007:151-161: MGET of the missing keys; with no missing key the command
\* has no argument and the server answers with an error
GetEntriesMGET(t) ==
    LET miss == task[t].missing
    IN  /\ task[t].pc = "e_MGET"
        /\ \E ok \in BOOLEAN :
             IF ok /\ miss # <<>>
               THEN /\ SetServer(serverRead(Server, t,
                                    {miss[j] : j \in 1..Len(miss)}))
                    /\ task' = [task EXCEPT ![t] =
                          [@ EXCEPT !.pc = "e_TTL",
                                    !.mres = [j \in 1..Len(miss) |-> store[miss[j]]]]]
               ELSE /\ SetServer(Server)
                    /\ task' = [task EXCEPT ![t] =
                          [@ EXCEPT !.pc = "e_cleanup", !.err = "err"]]
        /\ UNCHANGED <<caches, now, mode, closed, recvAlive, ret, ops, tinv,
                       stale, poolOnly, cacheOnly, syncOnly>>

\* part_007:163-172: MULTI, TTL of every missing key, EXEC
GetEntriesTTL(t) ==
    LET miss == task[t].missing
    IN  /\ task[t].pc = "e_TTL"
        /\ \E ok \in BOOLEAN :
             task' = [task EXCEPT ![t] =
                IF ok THEN [@ EXCEPT !.pc = "e_loop", !.i = 1,
                              !.ttls = [j \in 1..Len(miss) |-> sttl[miss[j]]]]
                      ELSE [@ EXCEPT !.pc = "e_cleanup", !.err = "err"]]
        /\ UNCHANGED <<store, sttl, tracked, invq, caches, now, mode, closed,
                       recvAlive, ret, ops, tinv, stale, poolOnly, cacheOnly, syncOnly>>

\* part_007:188-196: store the fetched entry at idxMap[k] and go to the next
\* missing key, or return the entries after the last
Fetched(t, tk) ==
    LET k == tk.missing[tk.i]
        es == [tk.entries EXCEPT ![idxMap(tk.keys, [i \in 1..Len(tk.keys) |->
                     IF tk.entries[i].LocalHit THEN "hit" ELSE Nil], k)] =
                       Entry(tk.mres[tk.i], FALSE)]
    IN  IF tk.i = Len(tk.missing)
          THEN /\ ret' = [ret EXCEPT ![t] = Ret("GetEntries", tk.keys, "none", Nil, FALSE, es)]
               /\ task' = [task EXCEPT ![t] = Idle]
          ELSE /\ ret' = ret
               /\ task' = [task EXCEPT ![t] =
                             [tk EXCEPT !.pc = "e_loop", !.i = @ + 1, !.entries = es]]

\* part_007:174-186: one missing key: a nil slot deletes the key locally and
\* leaves its entry empty; otherwise the entry is re-read
GetEntriesLoop(t) ==
    LET tk == task[t]
        k == tk.missing[tk.i]
        c == caches[cacheOf(t)]
    IN  /\ tk.pc = "e_loop"
        /\ IF tk.mres[tk.i] = Nil
             THEN /\ caches' = [caches EXCEPT ![cacheOf(t)] = cacheDelete(c, {k})]
                  /\ IF tk.i = Len(tk.missing)
                       THEN /\ ret' = [ret EXCEPT ![t] =
                                 Ret("GetEntries", tk.keys, "none", Nil, FALSE, tk.entries)]
                            /\ task' = [task EXCEPT ![t] = Idle]
                       ELSE /\ ret' = ret
                            /\ task' = [task EXCEPT ![t].i = @ + 1]
             ELSE /\ caches' = [caches EXCEPT ![cacheOf(t)] = cacheCount(c, k)]
                  /\ IF SentinelSeen(cacheData(c, k))
                       THEN /\ task' = [task EXCEPT ![t].pc = "e_commit"]
                            /\ ret' = ret
                       ELSE Fetched(t, tk)
        /\ UNCHANGED <<store, sttl, tracked, invq, now, mode, closed, recvAlive,
                       ops, tinv, poolOnly, cacheOnly, syncOnly>>
        /\ stale' = StillCached(stale)

\* part_007:185: commit the fetched bytes of one missing key
GetEntriesCommit(t) ==
    LET tk == task[t]
    IN  /\ tk.pc = "e_commit"
        /\ \E c \in cacheSet(caches[cacheOf(t)], ClientMaxEntries,
                             tk.missing[tk.i], tk.mres[tk.i], tk.ttls[tk.i], now) :
             caches' = [caches EXCEPT ![cacheOf(t)] = c]
        /\ Fetched(t, tk)
        /\ UNCHANGED <<store, sttl, tracked, invq, now, mode, closed, recvAlive,
                       ops, tinv, poolOnly, cacheOnly, syncOnly>>
        /\ stale' = StillCached(stale)

\* part_007:146-147: cleanup, first half: delete the missing keys locally
GetEntriesCleanup(t) ==
    /\ task[t].pc = "e_cleanup"
    /\ caches' = [caches EXCEPT ![cacheOf(t)] =
          cacheDelete(@, {task[t].missing[j] : j \in 1..Len(task[t].missing)})]
    /\ task' = [task EXCEPT ![t].pc = "e_DEL"]
    /\ UNCHANGED <<store, sttl, tracked, invq, now, mode, closed, recvAlive,
                   ret, ops, tinv, poolOnly, cacheOnly, syncOnly>>
    /\ stale' = StillCached(stale)

\* part_007:148 and the return of the error: cleanup, second half: DEL of the
\* missing keys, its outcome ignored
GetEntriesCleanupDEL(t) ==
    /\ task[t].pc = "e_DEL"
    /\ \E sent \in BOOLEAN :
         SetServer(IF sent THEN serverDEL(Server, t, task[t].missing) ELSE Server)
    /\ ret' = [ret EXCEPT ![t] = Ret("GetEntries", task[t].keys, task[t].err, Nil, FALSE, <<>>)]
    /\ task' = [task EXCEPT ![t] = Idle]
    /\ UNCHANGED <<caches, now, mode, closed, recvAlive, ops, tinv, stale, poolOnly, cacheOnly, syncOnly>>

(***************************************************************************)
(* invalidationsReceiver (src/unnamed/part_003)                            *)
(***************************************************************************)
\* history: the phase of t's current or last Get of k that an invalidation of k
\* on cache c falls into: after the sentinel was planted, after GET was issued
\* and before the commit finished, or after the Get returned
Phase(t, c, k) ==
    IF cacheOf(t) # c THEN {}
    ELSE IF task[t].pc = "g_GET" /\ task[t].keys = <<k>> THEN {"planted"}
    ELSE IF /\ task[t].pc \in {"g_TTL", "g_reread", "g_commit"}
            /\ task[t].keys = <<k>> THEN {"fetched"}
    ELSE IF /\ task[t].pc = "idle"
            /\ ret[t].op = "Get" /\ ret[t].keys = <<k>> THEN {"returned"}
    ELSE {}

\* part_003:21-55: a pushed "message" is received and its key deleted from the cache
Invalidate(c) ==
    /\ recvAlive[c]
    /\ invq[c] # <<>>
    /\ invq' = [invq EXCEPT ![c] = Tail(@)]
    /\ caches' = [caches EXCEPT ![c] = cacheDelete(@, {Head(invq[c])})]
    /\ tinv' = [t \in Tasks |-> tinv[t] \cup Phase(t, c, Head(invq[c]))]
    /\ UNCHANGED <<store, sttl, tracked, now, mode, closed, recvAlive, task, ret,
                   ops, poolOnly, cacheOnly, syncOnly>>
    /\ stale' = StillCached(stale)

NextClient ==
    \/ \E t \in Tasks, k \in Keys : Get(t, k)
    \/ \E t \in Tasks : GetLookup(t)
    \/ \E t \in Tasks : GetPlant(t)
    \/ \E t \in Tasks : GetGET(t)
    \/ \E t \in Tasks : GetTTL(t)
    \/ \E t \in Tasks : GetReread(t)
    \/ \E t \in Tasks : GetCommit(t)
    \/ \E t \in Tasks : GetCleanup(t)
    \/ \E t \in Tasks : GetCleanupDEL(t)
    \/ \E t \in Tasks, k \in Keys, v \in Values : Set(t, k, v)
    \/ \E t \in Tasks : SetSETEX(t)
    \/ \E t \in Tasks, k \in Keys : Delete(t, k)
    \/ \E t \in Tasks : DeleteDEL(t)
    \/ \E t \in Tasks : DeleteLocal(t)
    \/ \E c \in CacheIds : Invalidate(c)

NextEntries ==
    \/ NextClient
    \/ \E c \in CacheIds : mode = "tracking" /\ ReceiverFailed(c)
    \/ \E t \in Tasks, ks \in KeySeqs : GetEntries(t, ks)
    \/ \E t \in Tasks : GetEntriesGetm(t)
    \/ \E t \in Tasks : GetEntriesPlant(t)
    \/ \E t \in Tasks : GetEntriesMGET(t)
    \/ \E t \in Tasks : GetEntriesTTL(t)
    \/ \E t \in Tasks : GetEntriesLoop(t)
    \/ \E t \in Tasks : GetEntriesCommit(t)
    \/ \E t \in Tasks : GetEntriesCleanup(t)
    \/ \E t \in Tasks : GetEntriesCleanupDEL(t)

\* the sentinel protocol of Get against Set, Delete and the invalidation stream
SpecClient == InitClient /\ [][NextClient]_vars

\* the same with GetEntries
SpecEntries == InitEntries /\ [][NextEntries]_vars

\* the receiver goroutine of every client keeps receiving (part_003:21-55,
\* started at pool.go:110-114): a pushed invalidation is eventually applied.  The
\* callers are under no obligation to call.
FairSpecClient == SpecClient /\ \A c \in Tasks : WF_vars(Invalidate(c))

(***************************************************************************)
(* invalidationsReceiver step by step (src/unnamed/part_003:10-57), the    *)
(* goroutines that run it (pool.go:110-114, pool.go:214-218) and the       *)
(* broadcasting pool's pinger (pool.go:187-212)                            *)
(***************************************************************************)
\* part_003:17: the receiver gives up at this many failed receives
MaxFails == 5

\* pool.go:191: the pinger gives up at this many failed PINGs
PingMaxFails == 5

\* a reply that is not a "message" push (part_003:32-46): bytes that are not an
\* array, an array of another type, a message without a key list
NotAMessage == "pong"

\* the cache whose receiver is followed: client c1's (pool.go:94-99)
SyncCache == cacheOf("c1")

Pinger == "pinger"

\* pool.go:94-118: two clients of a tracking pool, c1 reads through its client
\* while c2 writes; c1's receiver has been started and has not subscribed yet
InitSync ==
    /\ mode = "tracking"
    /\ store = [k \in Keys |-> Nil]
    /\ options = NoPrefix
    /\ InitCommon
    /\ recv = [c \in {SyncCache} |-> [pc |-> "subscribe", fails |-> 0]]
    /\ pinger = <<>>
    /\ streak = [x \in {SyncCache} |-> 0]

\* pool.go:169-222: a broadcasting pool with its receiver and its pinger, and
\* two clients of it (pool.go:243-250): c1 reads, c2 writes
InitBroadcast ==
    /\ mode = "bcast"
    /\ store = [k \in Keys |-> Nil]
    /\ options = NoPrefix
    /\ InitCommon
    /\ recv = <<>>
    /\ pinger = [pc |-> "top", fails |-> 0]
    /\ streak = [x \in {Pinger} |-> 0]

\* pool.go:112, pool.go:216: the goroutine marks its owner closed, the Client
\* or the broadcasting pool.  History: the entries the pool's cache holds at
\* that moment are remembered.
setClosed(c) ==
    /\ closed' = [closed EXCEPT ![c] = TRUE]
    /\ stale' = IF mode = "bcast"
                  THEN stale \cup {<<PoolCache, k>> : k \in
                         {x \in Keys : Servable(cacheData(caches[PoolCache], x))}}
                  ELSE stale

\* part_003:11-13 with pool.go:110-114 or 214-218: SUBSCRIBE; its error ends the
\* receiver, which marks its owner closed
ReceiverSubscribe(c) ==
    /\ recv[c].pc = "subscribe"
    /\ \E ok \in BOOLEAN :
         IF ok THEN /\ recv' = [recv EXCEPT ![c].pc = "loop"]
                    /\ UNCHANGED <<closed, recvAlive, stale>>
               ELSE /\ recv' = [recv EXCEPT ![c].pc = "exited"]
                    /\ recvAlive' = [recvAlive EXCEPT ![c] = FALSE]
                    /\ setClosed(c)
    /\ UNCHANGED <<store, sttl, tracked, invq, caches, now, mode, task, ret,
                   ops, tinv, poolOnly, cacheOnly, pinger, streak>>

\* the connection delivers a reply that is no "message" (part_003:32-46 is the
\* code that meets it); one at a time is in flight
ServerSendsOther(c) ==
    /\ recv[c].pc # "exited"
    /\ \A i \in 1..Len(invq[c]) : invq[c][i] # NotAMessage
    /\ invq' = [invq EXCEPT ![c] = Append(@, NotAMessage)]
    /\ UNCHANGED <<store, sttl, tracked, caches, now, mode, closed, recvAlive,
                   task, ret, ops, tinv, stale, poolOnly, cacheOnly, syncOnly>>

\* part_003:21-26: conn.Receive returns an error; it is counted
ReceiveError(c) ==
    /\ recv[c].pc = "loop"
    /\ recv[c].fails < MaxFails
    /\ recv' = [recv EXCEPT ![c].fails = @ + 1]
    /\ streak' = [streak EXCEPT ![c] = @ + 1]
    /\ UNCHANGED <<store, sttl, tracked, invq, caches, now, mode, closed,
                   recvAlive, task, ret, ops, tinv, stale, poolOnly, cacheOnly,
                   pinger>>

\* part_003:16-19 with pool.go:110-114 or 214-218: at five failures the receiver
\* returns ErrClosed and its owner is marked closed
ReceiverGivesUp(c) ==
    /\ recv[c].pc = "loop"
    /\ recv[c].fails >= MaxFails
    /\ recv' = [recv EXCEPT ![c].pc = "exited"]
    /\ recvAlive' = [recvAlive EXCEPT ![c] = FALSE]
    /\ setClosed(c)
    /\ UNCHANGED <<store, sttl, tracked, invq, caches, now, mode, task, ret,
                   ops, tinv, poolOnly, cacheOnly, pinger, streak>>

\* part_003:28-30 with pool.go:110-114 or 214-218: the reply "RESET" ends the
\* receiver with a nil error, and the goroutine marks nothing
ReceiveReset(c) ==
    /\ recv[c].pc = "loop"
    /\ recv[c].fails < MaxFails
    /\ recv' = [recv EXCEPT ![c].pc = "exited"]
    /\ recvAlive' = [recvAlive EXCEPT ![c] = FALSE]
    /\ streak' = [streak EXCEPT ![c] = 0]
    /\ UNCHANGED <<store, sttl, tracked, invq, caches, now, mode, closed, task,
                   ret, ops, tinv, stale, poolOnly, cacheOnly, pinger>>

\* part_003:32-52: a reply that is no "message" is dropped
ReceiveOther(c) ==
    /\ recv[c].pc = "loop"
    /\ recv[c].fails < MaxFails
    /\ invq[c] # <<>> /\ Head(invq[c]) = NotAMessage
    /\ invq' = [invq EXCEPT ![c] = Tail(@)]
    /\ streak' = [streak EXCEPT ![c] = 0]
    /\ UNCHANGED <<store, sttl, tracked, caches, now, mode, closed, recvAlive,
                   task, ret, ops, tinv, stale, poolOnly, cacheOnly, pinger,
                   recv>>

\* part_003:32-55: a "message" push is received and its key deleted from the
\* cache
ReceiveMessage(c) ==
    /\ recv[c].pc = "loop"
    /\ recv[c].fails < MaxFails
    /\ invq[c] # <<>> /\ Head(invq[c]) # NotAMessage
    /\ invq' = [invq EXCEPT ![c] = Tail(@)]
    /\ caches' = [caches EXCEPT ![c] = cacheDelete(@, {Head(invq[c])})]
    /\ tinv' = [t \in Tasks |-> tinv[t] \cup Phase(t, c, Head(invq[c]))]
    /\ streak' = [streak EXCEPT ![c] = 0]
    /\ UNCHANGED <<store, sttl, tracked, now, mode, closed, recvAlive, task,
                   ret, ops, poolOnly, cacheOnly, pinger, recv>>
    /\ stale' = StillCached(stale)

\* a pinger that keeps its count over a successful PING
PingCountedNoReset(n, ok) == IF ok THEN n ELSE n + 1

\* pool.go:200-208: a failed PING is counted, a successful one resets the count
PingCounted(n, ok) == IF ok THEN 0 ELSE n + 1

\* pool.go:190-194: the loop condition and the test of the count: the pinger
\* ends when the pool is closed, and closes the pool at five failures
PingerTop ==
    /\ pinger.pc = "top"
    /\ IF closed[PoolCache]
         THEN /\ pinger' = [pinger EXCEPT !.pc = "exited"]
              /\ UNCHANGED <<closed, stale>>
         ELSE IF pinger.fails >= PingMaxFails
                THEN /\ pinger' = [pinger EXCEPT !.pc = "exited"]
                     /\ setClosed(PoolCache)
                ELSE /\ pinger' = [pinger EXCEPT !.pc = "tick"]
                     /\ UNCHANGED <<closed, stale>>
    /\ UNCHANGED <<store, sttl, tracked, invq, caches, now, mode, recvAlive,
                   task, ret, ops, tinv, poolOnly, cacheOnly, recv, streak>>

\* pool.go:196-209: on the tick, PING on the pool's data connection
PingerPing ==
    /\ pinger.pc = "tick"
    /\ \E ok \in BOOLEAN :
         /\ pinger' = [pc |-> "top", fails |-> PingCounted(pinger.fails, ok)]
         /\ streak' = [streak EXCEPT ![Pinger] = IF ok THEN 0 ELSE @ + 1]
    /\ UNCHANGED <<store, sttl, tracked, invq, caches, now, mode, closed,
                   recvAlive, task, ret, ops, tinv, stale, poolOnly, cacheOnly,
                   recv>>

\* pool.go:214-218: the pool's invalidationsReceiver returned an error
\* (part_003:11-19): the pool is marked closed
BroadcastReceiverFailed ==
    /\ recvAlive[PoolCache]
    /\ recvAlive' = [recvAlive EXCEPT ![PoolCache] = FALSE]
    /\ setClosed(PoolCache)
    /\ UNCHANGED <<store, sttl, tracked, invq, caches, now, mode, task, ret,
                   ops, tinv, poolOnly, cacheOnly, syncOnly>>

\* pool.go:253-256: BroadcastingPool.Close marks the pool closed
BroadcastingPoolClose ==
    /\ ~closed[PoolCache]
    /\ setClosed(PoolCache)
    /\ UNCHANGED <<store, sttl, tracked, invq, caches, now, mode, recvAlive,
                   task, ret, ops, tinv, poolOnly, cacheOnly, syncOnly>>

NextSync ==
    \/ \E k \in Keys : Get("c1", k)
    \/ GetLookup("c1")
    \/ GetPlant("c1")
    \/ GetGET("c1")
    \/ GetTTL("c1")
    \/ GetReread("c1")
    \/ GetCommit("c1")
    \/ GetCleanup("c1")
    \/ GetCleanupDEL("c1")
    \/ \E k \in Keys, v \in Values : Set("c2", k, v)
    \/ SetSETEX("c2")
    \/ ReceiverSubscribe(SyncCache)
    \/ ServerSendsOther(SyncCache)
    \/ ReceiveError(SyncCache)
    \/ ReceiverGivesUp(SyncCache)
    \/ ReceiveReset(SyncCache)
    \/ ReceiveOther(SyncCache)
    \/ ReceiveMessage(SyncCache)

\* a tracking client, a writer and the client's receiver
SpecSync == InitSync /\ [][NextSync]_vars

NextBroadcast ==
    \/ \E k \in Keys : Get("c1", k)
    \/ GetLookup("c1")
    \/ GetPlant("c1")
    \/ GetGET("c1")
    \/ GetTTL("c1")
    \/ GetReread("c1")
    \/ GetCommit("c1")
    \/ GetCleanup("c1")
    \/ GetCleanupDEL("c1")
    \/ \E k \in Keys, v \in Values : Set("c2", k, v)
    \/ SetSETEX("c2")
    \/ Invalidate(PoolCache)
    \/ BroadcastReceiverFailed
    \/ PingerTop
    \/ PingerPing
    \/ BroadcastingPoolClose

\* a broadcasting pool: its shared cache, receiver and pinger, a reading and a
\* writing client
SpecBroadcast == InitBroadcast /\ [][NextBroadcast]_vars

(***************************************************************************)
(* Claims about Client                                                     *)
(***************************************************************************)
\* t's last call was a Get that returned bytes without error
GetReturned(t) ==
    task[t].pc = "idle" /\ ret[t].op = "Get" /\ ret[t].err = "none"

\* C1: sentinel coherence: when an invalidation of k is applied to the client's
\* cache after its Get issued GET k and before the Get finished committing, the
\* cache does not hold the bytes that Get fetched once the Get has returned.
C1_SentinelCoherence ==
    \A t \in Tasks :
        (GetReturned(t) /\ ~ret[t].hit /\ "fetched" \in tinv[t])
        => cacheData(caches[cacheOf(t)], ret[t].keys[1]) # ret[t].data

\* C2: round trip: once a Set(k, v) has completed, with no other call running and
\* no invalidation outstanding for the client, a Get(k) on any client (the
\* setter included, whatever its cache held before) that is answered from the
\* cache returns the value the server holds.
C2_SetThenGetReturnsValue ==
    [][\A t \in Tasks :
         (/\ task[t].pc = "g_lookup" /\ task'[t].pc = "idle"
          /\ \A u \in Tasks \ {t} : task[u].pc = "idle"
          /\ invq[cacheOf(t)] = <<>>
          /\ store[task[t].keys[1]] \in Values)
         => ret'[t].data = store[task[t].keys[1]]]_vars

\* C3: after Get(k) returned v without error and no invalidation touched k since
\* the Get planted its sentinel, the cache maps k to v; and a Get(k) that finds k
\* mapped to such a v is answered v as a local hit, without a command to the
\* server.
C3_GetThenLocalHit ==
    /\ [](\A t \in Tasks :
            (GetReturned(t) /\ tinv[t] = {})
            => /\ ret[t].data \in Values
               /\ cacheData(caches[cacheOf(t)], ret[t].keys[1]) = ret[t].data)
    /\ [][\A t \in Tasks :
            (/\ task[t].pc = "g_lookup" /\ task'[t] # task[t]
             /\ cacheData(caches[cacheOf(t)], task[t].keys[1]) \in Values)
            => /\ task'[t].pc = "idle"
               /\ ret'[t] = Ret("Get", task[t].keys, "none",
                                cacheData(caches[cacheOf(t)], task[t].keys[1]),
                                TRUE, <<>>)
               /\ UNCHANGED <<store, sttl, tracked, invq>>]_vars

\* C3 witness: a Get fetched a value, and the Get of the same key that followed
\* was answered as a local hit with no invalidation in between.
C3_Witness ==
    \E t \in Tasks :
        /\ GetReturned(t) /\ ret[t].hit /\ tinv[t] = {}
        /\ caches[cacheOf(t)].misses > 0
        /\ ret[t].data \in Values

\* C4: in tracking mode, when a client holds k in its cache and another client
\* then modifies k on the server (Set or Delete), the entry the client held is
\* eventually gone from its cache.
C4_WriteEventuallyInvalidates ==
    \A c \in Tasks, k \in Keys : (<<c, k>> \in stale) ~> (<<c, k>> \notin stale)

\* C5: the sentinel is never handed to a caller, as the bytes of Get / GetEntry or
\* as the Data of an entry of GetEntries.
C5_SentinelNeverServed ==
    \A t \in Tasks :
        /\ ret[t].data # cacheInProgressSentinel
        /\ \A i \in 1..Len(ret[t].entries) :
              ret[t].entries[i].Data # cacheInProgressSentinel

\* C6: a call on a closed client (Get, GetEntry, GetEntries, Set, Delete) fails
\* with Closed, sends nothing and leaves the cache as it was, and the closed flag
\* is never cleared.
C6_ClosedClientFailsEveryCall ==
    [][\A t \in Tasks :
         /\ closed[t] => closed'[t]
         /\ (/\ closed[t] /\ task[t].pc = "idle"
             /\ task'[t] # task[t] \/ ret'[t] # ret[t])
            => /\ task'[t].pc = "idle"
               /\ ret'[t].err = "ErrClosed"
               /\ caches'[cacheOf(t)] = caches[cacheOf(t)]
               /\ UNCHANGED <<store, sttl, tracked, invq>>]_vars

\* C24: Set leaves the entries and the four counters of the client's cache as
\* they were, in the step that starts it (also on a closed client) and in the
\* SETEX step, whether SETEX succeeds or fails.
C24_SetLeavesCacheAlone ==
    [][\A t \in Tasks :
         (\/ task[t].pc = "idle" /\ task'[t].pc = "s_SETEX"
          \/ task[t].pc = "s_SETEX" /\ task'[t] # task[t]
          \/ ret'[t] # ret[t] /\ ret'[t].op = "Set")
         => caches'[cacheOf(t)] = caches[cacheOf(t)]]_vars

\* C24 witness: a Set of k succeeded on a client whose cache holds another
\* value for k from an earlier Get, and did not replace it.
C24_Witness ==
    \E t \in Tasks :
        /\ task[t].pc = "idle" /\ ret[t].op = "Set" /\ ret[t].err = "none"
        /\ Servable(cacheData(caches[cacheOf(t)], ret[t].keys[1]))
        /\ cacheData(caches[cacheOf(t)], ret[t].keys[1]) # store[ret[t].keys[1]]

\* C25: Delete sends DEL first and leaves the cache alone in that step; when
\* DEL fails it returns the error with the cache unchanged; when DEL
\* succeeded, the local delete follows and Delete returns with none of its
\* keys in the client's cache.
C25_DeleteRemoteThenLocal ==
    [][\A t \in Tasks :
         /\ (task[t].pc = "d_DEL" /\ task'[t] # task[t])
            => /\ caches'[cacheOf(t)] = caches[cacheOf(t)]
               /\ \/ /\ task'[t].pc = "idle"
                     /\ ret'[t].op = "Delete" /\ ret'[t].err = "err"
                     /\ UNCHANGED <<store>>
                  \/ /\ task'[t].pc = "d_local"
                     /\ \A i \in 1..Len(task[t].keys) : store'[task[t].keys[i]] = Nil
         /\ (task[t].pc = "d_local" /\ task'[t] # task[t])
            => /\ task'[t].pc = "idle"
               /\ ret'[t].op = "Delete" /\ ret'[t].err = "none"
               /\ \A i \in 1..Len(task[t].keys) :
                    ~Has(caches'[cacheOf(t)], task[t].keys[i])
         /\ (ret'[t] # ret[t] /\ ret'[t].op = "Delete" /\ ret'[t].err = "none")
            => task[t].pc = "d_local"]_vars

\* C25 witness: the DEL of a Delete succeeded while the client's cache holds a
\* value for the key: the local delete is what removes it.
C25_Witness ==
    \E t \in Tasks :
        /\ task[t].pc = "d_local"
        /\ Servable(cacheData(caches[cacheOf(t)], task[t].keys[1]))

\* C26: when a Get commits the bytes it fetched, no invalidation of its key
\* was applied to its cache since it planted its sentinel.
C26_SentinelProvesNoInvalidation ==
    [][\A t \in Tasks :
         (task[t].pc = "g_commit" /\ task'[t].pc = "idle") => tinv[t] = {}]_vars

\* C29: a Get that fails after it planted the sentinel fails through the
\* cleanup: the cleanup deletes the key from the cache before DEL, the Get
\* returns the error, and on the client's own cache the key is then absent.
C29_GetErrorCleanup ==
    [][\A t \in Tasks :
         /\ (/\ task[t].pc \in {"g_GET", "g_TTL", "g_reread", "g_commit",
                                "g_cleanup", "g_DEL"}
             /\ task'[t].pc = "idle" /\ ret'[t].err # "none")
            => /\ task[t].pc = "g_DEL"
               /\ ret'[t].op = "Get" /\ ret'[t].err = task[t].err
               /\ ret'[t].data = Nil
               /\ mode = "tracking" => ~Has(caches'[cacheOf(t)], task[t].keys[1])
         /\ (task[t].pc = "g_cleanup" /\ task'[t] # task[t])
            => /\ task'[t].pc = "g_DEL"
               /\ ~Has(caches'[cacheOf(t)], task[t].keys[1])
               /\ UNCHANGED <<store>>
         /\ (task[t].pc \in {"g_GET", "g_TTL"} /\ task'[t] # task[t])
            => task'[t].pc \in {"g_TTL", "g_reread", "g_cleanup"}]_vars

\* C29 witness: a Get failed after planting its sentinel and has returned.
C29_Witness ==
    \E t \in Tasks :
        /\ task[t].pc = "idle" /\ ret[t].op = "Get"
        /\ ret[t].err \in {"err", "ErrNil"}
        /\ caches[cacheOf(t)].misses > 0

\* t is the only caller so far: no other client has started a call
OnlyCaller(t) ==
    \A u \in Tasks \ {t} : task[u].pc = "idle" /\ ret[u] = NoRet

\* C20: a GetEntries that returns entries returns one per requested key, in
\* the keys' order: when t is the only caller, entry i holds a value if
\* keys[i] exists on the server, and is a Miss if keys[i] is neither cached nor
\* on the server; repeated keys included.
C20_GetEntriesOnePerKey ==
    \A t \in Tasks :
        (ret[t].op = "GetEntries" /\ ret[t].err = "none" /\ OnlyCaller(t))
        => /\ Len(ret[t].entries) = Len(ret[t].keys)
           /\ \A i \in 1..Len(ret[t].keys) :
                LET k == ret[t].keys[i]
                    e == ret[t].entries[i]
                IN  /\ store[k] # Nil => e.Data \in Values
                    /\ (store[k] = Nil /\ ~e.LocalHit) => e.Data = Nil

(***************************************************************************)
(* Claims about the receiver and the pinger                                *)
(***************************************************************************)
\* C23: on a broadcasting pool, once the invalidation stream has failed or the
\* pinger has counted five failed PINGs, no Get is answered from the shared cache
\* with an entry committed before the failure: a local hit is never on an entry
\* the cache held when the pool was marked closed.
C23_FlushedBeforeServed ==
    [][\A t \in Tasks :
         (task[t].pc = "g_lookup" /\ task'[t].pc = "idle" /\ ret'[t].hit)
           => <<PoolCache, task[t].keys[1]>> \notin stale]_vars

\* C27: the receiver ends with ErrClosed (its owner is marked closed from the
\* loop) only when the last five receives all failed, and a reply that is no
\* "message" neither ends it nor is counted nor changes the cache.
C27_FiveConsecutiveErrors ==
    [][\A c \in DOMAIN recv :
         /\ (recv[c].pc = "loop" /\ recv'[c].pc = "exited" /\ closed'[c])
              => streak[c] >= MaxFails
         /\ (/\ recv[c].pc = "loop" /\ invq[c] # <<>>
             /\ Head(invq[c]) = NotAMessage /\ invq'[c] = Tail(invq[c]))
              => recv' = recv /\ caches' = caches /\ closed' = closed]_vars

\* C28: a tracking client whose receiver has ended, for whatever reason, is
\* marked closed.
C28_ExitedMeansClosed ==
    \A c \in DOMAIN recv : recv[c].pc = "exited" => closed[c]

\* C30: the pinger's count is the number of PINGs that failed since the last
\* successful one; the pinger marks the pool closed only at five of them in a
\* row, and at five in a row its next step ends it with the pool closed.
C30_PingerFiveInARow ==
    [][/\ pinger'.fails = streak'[Pinger]
       /\ (pinger.pc = "top" /\ pinger'.pc = "exited" /\ ~closed[PoolCache])
            => streak[Pinger] = PingMaxFails /\ closed'[PoolCache]
       /\ (pinger.pc = "top" /\ pinger' # pinger /\ streak[Pinger] = PingMaxFails)
            => pinger'.pc = "exited" /\ closed'[PoolCache]
       /\ (pinger' # pinger /\ streak[Pinger] < PingMaxFails)
            => closed' = closed]_vars

\* the pinger has ended after five failed PINGs in a row that followed a
\* reading client's successful Get, with the receiver still running
C30_Witness ==
    /\ pinger.pc = "exited"
    /\ streak[Pinger] = PingMaxFails
    /\ closed[PoolCache]
    /\ recvAlive[PoolCache]
    /\ ret["c1"].op = "Get" /\ ret["c1"].err = "none"

(***************************************************************************)
(* the cache on its own (src/unnamed/part_006): goroutines calling set,     *)
(* delete, getEntry, getm, evictExpired and flush on one cache              *)
(***************************************************************************)
MaxMaxEntries == 2
MaxClock == 3

\* part_005:12-13: the keys "key:%d", one more than the largest cache holds
CacheKeys == 1..(MaxMaxEntries + 1)
\* the expires argument of set: NoExpire or one second
TTLs == {NoExpire, NoExpire + 1}
\* the bytes each caller writes: different callers write different values
ValueOf(t) == IF t = "c1" THEN "123" ELSE "456"
\* the keys of a getm call (part_006:150)
GetmKeys == {<<k>> : k \in CacheKeys} \cup {<<k, l>> : k, l \in CacheKeys}

theCache == caches[PoolCache]

CacheIdle == [pc |-> "idle"]

\* what the cache's operations leave alone
notCache == <<options, active, waited, ch, free, created, closed, connOpen,
              recvAlive, gpc, gclient, gblocked, blocked, gets, gerr, mode,
              store, sttl, tracked, invq, ret, tinv, stale, watch, recv,
              pinger, streak>>

\* part_006:39-51: a cache of any positive maxEntries (newCache panics on the
\* others), empty, its callers idle
InitCache ==
    /\ options \in [MaxEntries : 1..MaxMaxEntries]
    /\ caches = [c \in {PoolCache} |-> newCache]
    /\ now = 1
    /\ task = [t \in Tasks |-> CacheIdle]
    /\ ops = 0
    /\ lookups = 0
    /\ mode = "cache"
    /\ active = 0 /\ waited = 0 /\ ch = 0 /\ free = <<>> /\ created = 0
    /\ closed = <<>> /\ connOpen = <<>> /\ recvAlive = <<>>
    /\ gpc = <<>> /\ gclient = <<>> /\ gblocked = <<>> /\ blocked = 0
    /\ gets = 0 /\ gerr = <<>>
    /\ store = <<>> /\ sttl = <<>> /\ tracked = <<>> /\ invq = <<>>
    /\ ret = <<>> /\ tinv = <<>> /\ stale = {}
    /\ NoSync
    /\ NoWatch

\* an expiry test without the IsZero half: the zero time is before every now
isExpiredNoZeroTest(e, at) == e.expires < at

\* part_006:178: !entry.expires.IsZero() && entry.expires.Before(now)
isExpired(e, at) == e.expires # ZeroTime /\ e.expires < at

CacheCall(t) ==
    /\ task[t].pc = "idle"
    /\ ops < MaxOps
    /\ ops' = ops + 1

CacheReturn(t) == task' = [task EXCEPT ![t] = CacheIdle]

\* part_006:105-108: set is called and waits for the lock
setCall(t) ==
    /\ CacheCall(t)
    /\ \E k \in CacheKeys, e \in TTLs :
         task' = [task EXCEPT ![t] = [pc |-> "set", key |-> k, val |-> ValueOf(t),
                                      exp |-> e]]
    /\ UNCHANGED <<caches, now, lookups, notCache>>

\* part_006:108-124: set under the lock.  When evictKeys panics (part_006:80),
\* the deferred Unlock runs and the panic goes up to the caller: the cache is
\* as it was.
setLocked(t) ==
    /\ task[t].pc = "set"
    /\ LET res == cacheSet(theCache, options.MaxEntries, task[t].key,
                           task[t].val, task[t].exp, now)
       IN  IF res = {}
             THEN /\ task' = [task EXCEPT ![t] = [pc |-> "panicked"]]
                  /\ caches' = caches
             ELSE /\ \E d \in res : caches' = [caches EXCEPT ![PoolCache] = d]
                  /\ CacheReturn(t)
    /\ UNCHANGED <<now, ops, lookups, notCache>>

\* part_006:53-61: delete of one key
deleteLocked(t) ==
    /\ CacheCall(t)
    /\ \E k \in CacheKeys :
         caches' = [caches EXCEPT ![PoolCache] = cacheDelete(theCache, {k})]
    /\ UNCHANGED <<now, task, lookups, notCache>>

\* part_006:127-130: getEntry reads the map under the lock
getEntryLocked(t) ==
    /\ CacheCall(t)
    /\ \E k \in CacheKeys :
         task' = [task EXCEPT ![t] = [pc |-> "getEntryCount", key |-> k,
                                      ok |-> Has(theCache, k),
                                      data |-> cacheData(theCache, k)]]
    /\ lookups' = lookups + 1
    /\ UNCHANGED <<caches, now, notCache>>

\* part_006:132-142: after Unlock, getEntry adds to hits or misses and returns
getEntryCount(t) ==
    /\ task[t].pc = "getEntryCount"
    /\ caches' = [caches EXCEPT ![PoolCache] = cacheCounted(theCache, task[t].ok)]
    /\ CacheReturn(t)
    /\ UNCHANGED <<now, ops, lookups, notCache>>

\* part_006:150-170: getm reads and counts every key under the lock
getmLocked(t) ==
    /\ CacheCall(t)
    /\ \E ks \in GetmKeys :
         /\ caches' = [caches EXCEPT ![PoolCache] = cacheCountAll(theCache, ks)]
         /\ lookups' = lookups + Len(ks)
    /\ UNCHANGED <<now, task, notCache>>

\* part_006:175: evictExpired reads the clock
evictExpiredCall(t) ==
    /\ CacheCall(t)
    /\ task' = [task EXCEPT ![t] = [pc |-> "evictCollect", at |-> now]]
    /\ UNCHANGED <<caches, now, lookups, notCache>>

\* part_006:176-184: under the lock it collects the expired keys; with none it
\* returns.  seen is history: the entries it looked at.
evictExpiredCollect(t) ==
    /\ task[t].pc = "evictCollect"
    /\ LET keys == {k \in DOMAIN theCache.entries :
                      isExpired(theCache.entries[k], task[t].at)}
       IN  IF keys = {}
             THEN CacheReturn(t)
             ELSE task' = [task EXCEPT ![t] = [pc |-> "evictAdd", at |-> task[t].at,
                                               keys |-> keys,
                                               seen |-> theCache.entries]]
    /\ UNCHANGED <<caches, now, ops, lookups, notCache>>

\* part_006:187: atomic.AddUint64(&c.expired, len(keys))
evictExpiredAdd(t) ==
    /\ task[t].pc = "evictAdd"
    /\ caches' = [caches EXCEPT ![PoolCache].expired = @ + Cardinality(task[t].keys)]
    /\ task' = [task EXCEPT ![t].pc = "evictDelete"]
    /\ UNCHANGED <<now, ops, lookups, notCache>>

\* part_006:188: c.delete(keys...)
evictExpiredDelete(t) ==
    /\ task[t].pc = "evictDelete"
    /\ caches' = [caches EXCEPT ![PoolCache] = cacheDelete(theCache, task[t].keys)]
    /\ CacheReturn(t)
    /\ UNCHANGED <<now, ops, lookups, notCache>>

\* part_006:206-217: flush empties the map and zeroes the four counters
flushLocked(t) ==
    /\ CacheCall(t)
    /\ caches' = [caches EXCEPT ![PoolCache] = newCache]
    /\ lookups' = 0
    /\ UNCHANGED <<now, task, notCache>>

\* nowFunc() moves on
Tick ==
    /\ now < MaxClock
    /\ now' = now + 1
    /\ UNCHANGED <<caches, task, ops, lookups, notCache>>

NextCache ==
    \/ \E t \in Tasks :
         \/ setCall(t) \/ setLocked(t)
         \/ deleteLocked(t)
         \/ getEntryLocked(t) \/ getEntryCount(t)
         \/ getmLocked(t)
         \/ evictExpiredCall(t) \/ evictExpiredCollect(t)
         \/ evictExpiredAdd(t) \/ evictExpiredDelete(t)
         \/ flushLocked(t)
    \/ Tick

SpecCache == InitCache /\ [][NextCache]_vars

NumEntries == Cardinality(DOMAIN theCache.entries)

\* the step in which t's set runs under the lock
SetStep(t) == task[t].pc = "set" /\ task'[t].pc # "set"

\* C13: whenever no mutation is in progress (the lock is free), the cache
\* holds at most max_entries entries, for every max_entries >= 1 and every
\* interleaving of set, delete, evictExpired and flush.
C13_CacheBound == NumEntries <= options.MaxEntries

\* C13 witness: a set found the cache full, evicted, and the cache is full
\* again.
C13_Witness ==
    theCache.evictions > 0 /\ NumEntries = options.MaxEntries

\* C14: no set ends in a panic, for every max_entries >= 1.
C14_SetNeverPanics == \A t \in Tasks : task[t].pc # "panicked"

\* C15: a set that finds the cache full with P entries removes exactly
\* max(1, ceil(0.05 * P)) of them and adds exactly that number to evictions.
C15_EvictionSize ==
    [][\A t \in Tasks :
         (SetStep(t) /\ NumEntries >= options.MaxEntries)
         => LET P == NumEntries
                q == CHOOSE q \in 0..P : 20 * q >= P /\ 20 * (q - 1) < P
                n == IF q < 1 THEN 1 ELSE q
            IN  /\ theCache'.evictions = theCache.evictions + n
                /\ \E gone \in SUBSET (DOMAIN theCache.entries) :
                     /\ Cardinality(gone) = n
                     /\ DOMAIN theCache'.entries =
                          (DOMAIN theCache.entries \ gone) \cup {task[t].key}]_vars

\* C16: a set that completes leaves its key in the cache with the value
\* written, also when it evicts; while the cache holds fewer than max_entries
\* entries a set evicts nothing, so a set of a new key raises the number of
\* entries by one; and a get returns the value the cache holds for its key.
C16_SetNotLost ==
    [][\A t \in Tasks :
         /\ (SetStep(t) /\ task'[t].pc = "idle")
            => /\ Has(theCache', task[t].key)
               /\ cacheData(theCache', task[t].key) = task[t].val
               /\ NumEntries < options.MaxEntries
                  => /\ theCache'.evictions = theCache.evictions
                     /\ DOMAIN theCache'.entries =
                          DOMAIN theCache.entries \cup {task[t].key}
                     /\ \A k \in DOMAIN theCache.entries \ {task[t].key} :
                          theCache'.entries[k] = theCache.entries[k]
         /\ (task[t].pc = "idle" /\ task'[t].pc = "getEntryCount")
            => \E k \in CacheKeys :
                 task'[t].data = IF k \in DOMAIN theCache.entries
                                   THEN theCache.entries[k].data ELSE Nil]_vars

\* C16 witness: sets of new keys filled a cache of two entries, a further set
\* evicted, and every set's caller is back.
C16_Witness ==
    /\ options.MaxEntries >= 2
    /\ theCache.evictions = 1
    /\ NumEntries = 2
    /\ \A t \in Tasks : task[t].pc = "idle"

\* C17: an evictExpired during which nobody else changes the entries removes
\* exactly the entries whose expiry is set and earlier than the time it read,
\* leaves the others as they were, and adds the number removed to expired.
C17_EvictExpiredExact ==
    [][\A t \in Tasks :
         LET due == {k \in DOMAIN theCache.entries :
                       /\ theCache.entries[k].expires # ZeroTime
                       /\ theCache.entries[k].expires < task[t].at}
         IN  /\ (task[t].pc = "evictCollect" /\ task'[t].pc = "idle")
                => due = {} /\ caches' = caches
             /\ (task[t].pc = "evictCollect" /\ task'[t].pc = "evictAdd")
                => due # {} /\ caches' = caches
             /\ (task[t].pc = "evictAdd" /\ task'[t].pc = "evictDelete"
                   /\ task[t].seen = theCache.entries)
                => /\ theCache'.expired = theCache.expired + Cardinality(due)
                   /\ theCache'.entries = theCache.entries
             /\ (task[t].pc = "evictDelete" /\ task'[t].pc = "idle"
                   /\ task[t].seen = theCache.entries)
                => /\ theCache'.entries = Without(theCache.entries, due)
                   /\ theCache'.expired = theCache.expired]_vars

\* C17 witness: an evictExpired removed an expired entry and left an entry
\* without expiry.
C17_Witness ==
    /\ theCache.expired > 0
    /\ \A t \in Tasks : task[t].pc = "idle"
    /\ \E k \in DOMAIN theCache.entries : theCache.entries[k].expires = ZeroTime

\* C18: a set with expires 0 writes an entry whose expiry is unset, and no
\* evictExpired removes an entry whose expiry is unset, whatever the clock.
C18_NoExpireNeverExpires ==
    [][\A t \in Tasks :
         /\ (SetStep(t) /\ task'[t].pc = "idle" /\ task[t].exp <= NoExpire)
            => theCache'.entries[task[t].key].expires = ZeroTime
         /\ (task[t].pc = "evictDelete" /\ task'[t].pc = "idle")
            => \A k \in DOMAIN theCache.entries :
                 theCache.entries[k].expires = ZeroTime
                 => /\ k \in DOMAIN theCache'.entries
                    /\ theCache'.entries[k] = theCache.entries[k]]_vars

\* C32: evictExpired never removes an entry that is unexpired at the moment it
\* is removed: every entry its delete takes out of the cache has an expiry that
\* is set and earlier than the clock.
C32_SweepRemovesOnlyExpired ==
    [][\A t \in Tasks :
         (task[t].pc = "evictDelete" /\ task'[t].pc = "idle")
           => \A k \in DOMAIN theCache.entries \ DOMAIN theCache'.entries :
                /\ theCache.entries[k].expires # ZeroTime
                /\ theCache.entries[k].expires < now]_vars

\* C39: no expired entry is served: an entry that a look-up finds and hands
\* back has no expiry or one that is not earlier than the clock, whenever the
\* sweep last ran.
C39_NoExpiredServed ==
    [][\A t \in Tasks :
         (task[t].pc = "idle" /\ task'[t].pc = "getEntryCount" /\ task'[t].ok)
           => ~isExpired(theCache.entries[task'[t].key], now)]_vars

\* C19: when no getEntry is between its map read and its counter, hits +
\* misses is the number of key lookups made since the last flush.
C19_HitsPlusMisses ==
    (\A t \in Tasks : task[t].pc # "getEntryCount")
    => theCache.hits + theCache.misses = lookups

(***************************************************************************)
(* Which cache a Client uses (pool.go:94-99, pool.go:243-250): clients     *)
(* with Flush, the expireWatcher of every cache and time passing           *)
(***************************************************************************)
\* a flush that empties every cache there is
FlushEveryCache(t) ==
    /\ Begin(t)
    /\ caches' = [c \in DOMAIN caches |-> newCache]
    /\ ret' = [ret EXCEPT ![t] = Ret("Flush", <<>>, "none", Nil, FALSE, <<>>)]
    /\ task' = task
    /\ UNCHANGED <<store, sttl, tracked, invq, now, mode, closed, recvAlive,
                   poolOnly, cacheOnly, syncOnly>>
    /\ stale' = StillCached(stale)

\* part_007:237-239 with part_006:206-217: Client.Flush empties the client's
\* cache and zeroes its counters
Flush(t) ==
    /\ Begin(t)
    /\ caches' = [caches EXCEPT ![cacheOf(t)] = newCache]
    /\ ret' = [ret EXCEPT ![t] = Ret("Flush", <<>>, "none", Nil, FALSE, <<>>)]
    /\ task' = task
    /\ UNCHANGED <<store, sttl, tracked, invq, now, mode, closed, recvAlive,
                   poolOnly, cacheOnly, syncOnly>>
    /\ stale' = StillCached(stale)

\* part_003:67-68 with part_006:172-184: on its tick the watcher of cache c
\* collects the expired keys; with none evictExpired returns
expireWatcherCollect(c) ==
    /\ watch[c].pc = "idle"
    /\ LET keys == {k \in DOMAIN caches[c].entries :
                      isExpired(caches[c].entries[k], now)}
       IN  /\ keys # {}
           /\ watch' = [watch EXCEPT ![c] = [pc |-> "add", keys |-> keys]]
    /\ UNCHANGED <<lookups, clientOnly, poolOnly, closed, recvAlive, syncOnly>>

\* part_006:187: atomic.AddUint64(&c.expired, len(keys))
expireWatcherAdd(c) ==
    /\ watch[c].pc = "add"
    /\ caches' = [caches EXCEPT ![c].expired = @ + Cardinality(watch[c].keys)]
    /\ watch' = [watch EXCEPT ![c].pc = "delete"]
    /\ UNCHANGED <<store, sttl, tracked, invq, now, mode, closed, recvAlive,
                   task, ret, ops, tinv, stale, lookups, poolOnly, syncOnly>>

\* part_006:188: c.delete(keys...)
expireWatcherDelete(c) ==
    /\ watch[c].pc = "delete"
    /\ caches' = [caches EXCEPT ![c] = cacheDelete(@, watch[c].keys)]
    /\ watch' = [watch EXCEPT ![c] = WatchIdle]
    /\ UNCHANGED <<store, sttl, tracked, invq, now, mode, closed, recvAlive,
                   task, ret, ops, tinv, lookups, poolOnly, syncOnly>>
    /\ stale' = StillCached(stale)

\* time passes, once: long enough for a planted sentinel (part_007:71) to
\* expire, not for a value (part_005:189); the server's TTLs run down with it
Elapse ==
    /\ now = 1
    /\ now' = now + SentinelTTL + 1
    /\ sttl' = [k \in DOMAIN sttl |->
                  IF sttl[k] > 0 THEN sttl[k] - (SentinelTTL + 1) ELSE sttl[k]]
    /\ UNCHANGED <<store, tracked, invq, caches, mode, closed, recvAlive, task,
                   ret, ops, tinv, stale, poolOnly, cacheOnly, syncOnly>>

\* the key the clients of this specification read, write and delete
ShareKey == "foo"

\* both clients read, c2 writes, c1 deletes, both flush
NextShare ==
    \/ \E t \in Tasks : Get(t, ShareKey)
    \/ \E t \in Tasks : GetLookup(t)
    \/ \E t \in Tasks : GetPlant(t)
    \/ \E t \in Tasks : GetGET(t)
    \/ \E t \in Tasks : GetTTL(t)
    \/ \E t \in Tasks : GetReread(t)
    \/ \E t \in Tasks : GetCommit(t)
    \/ \E t \in Tasks : GetCleanup(t)
    \/ \E t \in Tasks : GetCleanupDEL(t)
    \/ \E v \in Values : Set("c2", ShareKey, v)
    \/ SetSETEX("c2")
    \/ Delete("c1", ShareKey)
    \/ DeleteDEL("c1")
    \/ DeleteLocal("c1")
    \/ \E c \in CacheIds : Invalidate(c)
    \/ \E t \in Tasks : Flush(t)
    \/ \E c \in CacheIds : expireWatcherCollect(c)
    \/ \E c \in CacheIds : expireWatcherAdd(c)
    \/ \E c \in CacheIds : expireWatcherDelete(c)
    \/ Elapse

\* clients of a tracking pool or of a broadcasting pool, with everything that
\* changes a cache
SpecShare == InitEntries /\ [][NextShare]_vars

\* C22: every tracking client has a cache of its own: a step that changes one
\* cache (a set, a delete, an invalidation, an expiry, a flush) is a step of that
\* cache's client, receiver or watcher and changes no other cache.  The clients
\* of a broadcasting pool share the pool's cache: a value one of them commits
\* is cached for all, and a lookup by any of them of a cached value is a local
\* hit with that value.
C22_CacheSharing ==
    [][/\ \A c \in DOMAIN caches : caches'[c] # caches[c] =>
            \A d \in DOMAIN caches \ {c} :
               /\ caches'[d] = caches[d] /\ watch'[d] = watch[d]
               /\ d \in Tasks => task'[d] = task[d] /\ ret'[d] = ret[d]
               /\ Len(invq'[d]) >= Len(invq[d])
       /\ mode = "tracking" => DOMAIN caches = Tasks
       /\ mode = "bcast" =>
            /\ DOMAIN caches = {PoolCache}
            /\ \A t \in Tasks :
                 /\ (task[t].pc = "g_commit" /\ task'[t].pc = "idle")
                      => cacheData(caches'[PoolCache], task[t].keys[1]) = task[t].data
                 /\ (/\ task[t].pc = "g_lookup" /\ task'[t] # task[t]
                     /\ Servable(cacheData(caches[PoolCache], task[t].keys[1])))
                      => /\ ret'[t].hit
                         /\ ret'[t].data = cacheData(caches[PoolCache], task[t].keys[1])]_vars

\* on a broadcasting pool c1's Get is a local hit on the value that c2's Get
\* fetched and committed
C22_Witness ==
    /\ mode = "bcast"
    /\ ret["c2"].op = "Get" /\ ret["c2"].err = "none" /\ ~ret["c2"].hit
    /\ ret["c1"].op = "Get" /\ ret["c1"].hit
    /\ ret["c1"].keys = ret["c2"].keys
    /\ ret["c1"].data = ret["c2"].data

(***************************************************************************)
(* Key prefixing (src/unnamed/part_007:275-282): clients of a pool whose   *)
(* options name a KeyPrefix                                                *)
(***************************************************************************)
\* part_005:296: PoolOptions{KeyPrefix: "__csc:", ...}
TestPrefix == "__csc:"

\* a value some other program stored
ForeignValue == "789"

\* the keys the callers pass with the prefix in front
PrefixedKeys == {TestPrefix \o k : k \in Keys}

\* clients of a tracking or a broadcasting pool with a KeyPrefix, in front of
\* a server that holds nothing under the prefix and may hold values, not
\* written through the pool, under the keys without it
InitPrefix ==
    /\ mode \in {"tracking", "bcast"}
    /\ \E other \in [Keys -> {Nil, ForeignValue}] :
         store = [k \in Keys \cup PrefixedKeys |->
                    IF k \in Keys THEN other[k] ELSE Nil]
    /\ options = [NoPrefix EXCEPT !.KeyPrefix = TestPrefix]
    /\ InitCommon
    /\ NoSync

\* c1 writes, reads and deletes single keys, c2 reads them with Get and with
\* GetEntries
NextPrefix ==
    \/ \E t \in Tasks, k \in Keys : Get(t, k)
    \/ \E t \in Tasks : GetLookup(t)
    \/ \E t \in Tasks : GetPlant(t)
    \/ \E t \in Tasks : GetGET(t)
    \/ \E t \in Tasks : GetTTL(t)
    \/ \E t \in Tasks : GetReread(t)
    \/ \E t \in Tasks : GetCommit(t)
    \/ \E t \in Tasks : GetCleanup(t)
    \/ \E t \in Tasks : GetCleanupDEL(t)
    \/ \E k \in Keys, v \in Values : Set("c1", k, v)
    \/ SetSETEX("c1")
    \/ \E k \in Keys : Delete("c1", k)
    \/ DeleteDEL("c1")
    \/ DeleteLocal("c1")
    \/ \E c \in CacheIds : Invalidate(c)
    \/ \E k \in Keys : GetEntries("c2", <<k>>)
    \/ GetEntriesGetm("c2")
    \/ GetEntriesPlant("c2")
    \/ GetEntriesMGET("c2")
    \/ GetEntriesTTL("c2")
    \/ GetEntriesLoop("c2")
    \/ GetEntriesCommit("c2")
    \/ GetEntriesCleanup("c2")
    \/ GetEntriesCleanupDEL("c2")

SpecPrefix == InitPrefix /\ [][NextPrefix]_vars

\* C21: with a KeyPrefix every key a caller passes to Get, GetEntries, Set or
\* Delete is prefixed, once, before it reaches the cache or the server: the
\* caches hold entries under prefixed keys only, the server remembers reads of
\* prefixed keys only, and no step changes what the server holds under a key
\* without the prefix.
C21_KeysPrefixed ==
    [][options.KeyPrefix # "" =>
         /\ \A c \in DOMAIN caches : DOMAIN caches'[c].entries \subseteq PrefixedKeys
         /\ \A k \in DOMAIN store \ PrefixedKeys :
              tracked'[k] = {} /\ store'[k] = store[k]]_vars

\* t's GetEntries is past its local look-up, which found every key
AllLocalHits(t) ==
    /\ task[t].pc \in {"e_plant", "e_MGET", "e_TTL", "e_loop", "e_commit",
                       "e_cleanup", "e_DEL"}
    /\ task[t].missing = <<>>

\* C36: a GetEntries whose keys are all local hits sends nothing on the data
\* connection and plants nothing: its step after the look-up is the return of
\* every entry as a local hit, without error, the server and the cache as they
\* were.
C36_AllHitsNoCommand ==
    [][\A t \in Tasks :
         (AllLocalHits(t) /\ task'[t] # task[t])
           => /\ task'[t].pc = "idle"
              /\ ret'[t].op = "GetEntries" /\ ret'[t].err = "none"
              /\ Len(ret'[t].entries) = Len(task[t].keys)
              /\ \A i \in 1..Len(ret'[t].entries) : ret'[t].entries[i].LocalHit
              /\ store' = store /\ tracked' = tracked
              /\ caches'[cacheOf(t)].entries = caches[cacheOf(t)].entries]_vars

\* C37: the invalidation connection of a client that TrackingPool.Get returned
\* is subscribed before the client is used, so no invalidation is lost: when
\* a write of another connection ends the server's tracking of a key for the
\* client, the invalidation of that key is queued on the client's connection.
C37_SubscribedBeforeVended ==
    [][\A c \in DOMAIN recv : \A k \in Keys :
         (c \in tracked[k] /\ c \notin tracked'[k] /\ task'[c] = task[c])
           => /\ Subscribed(c)
              /\ invq'[c] = Append(invq[c], k)]_vars

\* C38: a Get changes hits + misses of its client's cache by exactly one: its
\* local look-up adds one hit and no miss when the Get is served from the
\* cache, one miss and no hit when it goes on to the server, and no later step
\* of the Get counts anything.
C38_OneCountPerGet ==
    [][\A t \in Tasks :
         LET before == caches[cacheOf(t)]
             after == caches'[cacheOf(t)]
         IN  /\ (task[t].pc = "g_lookup" /\ task'[t] # task[t])
                  => IF task'[t].pc = "idle" /\ ret'[t].hit
                       THEN /\ after.hits = before.hits + 1
                            /\ after.misses = before.misses
                       ELSE /\ after.misses = before.misses + 1
                            /\ after.hits = before.hits
             /\ task[t].pc \in {"g_plant", "g_GET", "g_TTL", "g_reread",
                                "g_commit", "g_cleanup", "g_DEL"}
                  => /\ after.hits = before.hits
                     /\ after.misses = before.misses]_vars

(***************************************************************************)
(* A stored value that is the sentinel's text                              *)
(***************************************************************************)
\* tracking clients in front of a server whose values any program may write:
\* c2 stores, among others, the bytes of the in-progress sentinel, and c1
\* reads the keys with Get
NextCollide ==
    \/ \E k \in Keys : Get("c1", k)
    \/ GetLookup("c1")
    \/ GetPlant("c1")
    \/ GetGET("c1")
    \/ GetTTL("c1")
    \/ GetReread("c1")
    \/ GetCommit("c1")
    \/ GetCleanup("c1")
    \/ GetCleanupDEL("c1")
    \/ \E k \in Keys, v \in Values \cup {cacheInProgressSentinel} : Set("c2", k, v)
    \/ SetSETEX("c2")
    \/ \E c \in CacheIds : Invalidate(c)

SpecCollide == InitClient /\ [][NextCollide]_vars

\* a Get or GetEntries of caller t is between its entry and its return
ReadInFlight(t) == task[t].pc \notin {"idle", "s_SETEX", "d_DEL", "d_local"}

====
